---- MODULE Spec2Model ----
(***************************************************************************)
(* The rate-composition and risk engine of the lending backend             *)
(* (backend/app/services/interest_rate_service.py), with its oracles       *)
(* (prediction service, market data service, position store) as            *)
(* nondeterministic responders.                                            *)
(*                                                                         *)
(* Numbers.  Python floats are modelled as exact fixed-point rationals:    *)
(*   rates                      integers in units of 1/RS                  *)
(*   confidence, volatilities,                                             *)
(*   max_drawdown               integers in hundredths                     *)
(*   predicted_change_percent,                                             *)
(*   trend_strength             integers                                   *)
(*   apy                        integers in units of 1/ApyScale            *)
(*   quotients of amounts       rationals [n, d] with d > 0                *)
(* RS is the common denominator of every product the rate formulas form    *)
(* over these grids, so the rate arithmetic is exact.                      *)
(***************************************************************************)
EXTENDS Integers, Sequences, FiniteSets, TLC

VARIABLES cfg, pool_data, req, ret, base_rate_info,
          clock, cache, prediction_cache, model_files

vars == <<cfg, pool_data, req, ret, base_rate_info,
          clock, cache, prediction_cache, model_files>>

\* The state of the market-data and prediction services: the wall clock in
\* minutes, MarketDataService.cache, PredictionService.prediction_cache and
\* the model files on disk (per model_id, how many trainings have saved one).
service_state == <<clock, cache, prediction_cache, model_files>>

(***************************************************************************)
(* Bounds of the model.                                                    *)
(***************************************************************************)
ConfSteps == 2
VolSteps == 1
MaxChange == 30
MaxBorrowedSteps == 5
MaxAmount == 3
MaxCollateral == 6
MaxPrice == 2
MaxUsd == 45
MaxDebtUsd == 20
MinRateBp == 20
MaxNow == 1
MaxDays == 3
MaxRateBp == 3300
MaxQuarterUlps == 8
MaxClock == 6

(***************************************************************************)
(* Units.                                                                  *)
(***************************************************************************)
RS == 100 * 200 * 100 * 100
Pct(n) == n * (RS \div 100)
Mille(n) == n * (RS \div 1000)
Bp(n) == n * (RS \div 10000)
ApyScale == 1000 * 1000
ApySplit == 10 * 100

Min(a, b) == IF a <= b THEN a ELSE b
Max(a, b) == IF a >= b THEN a ELSE b
Abs(a) == IF a < 0 THEN -a ELSE a
Grid(top, n) == {(k * top) \div n : k \in 0..n}

\* Rationals n/d with d > 0, compared by cross-multiplication.
Rat(n, d) == [n |-> n, d |-> d]
RatEq(a, b) == a.n * b.d = b.n * a.d
RatGe(a, b) == a.n * b.d >= b.n * a.d
RatGt(a, b) == a.n * b.d > b.n * a.d

(***************************************************************************)
(* Settings (app/config.py): the three interest-rate settings, read from   *)
(* the environment with the defaults 0.02 / 0.30 / 0.01.                   *)
(***************************************************************************)
BASE_INTEREST_RATE == Pct(2)
MAX_INTEREST_RATE == Pct(30)
MIN_INTEREST_RATE == Pct(1)

DefaultSettings ==
    [base_rate |-> BASE_INTEREST_RATE, max_rate |-> MAX_INTEREST_RATE,
     min_rate |-> MIN_INTEREST_RATE]

\* Environment overrides with min_rate <= base_rate <= max_rate.
Settings ==
    { [base_rate |-> Pct(b), max_rate |-> MAX_INTEREST_RATE,
       min_rate |-> MIN_INTEREST_RATE] : b \in {2, 28} }

(***************************************************************************)
(* Python dicts: functions from the keys present to values.  An oracle     *)
(* response is a dict, None, or a raised exception; `bad` names the keys   *)
(* whose value is not a number.                                            *)
(***************************************************************************)
EmptyDict == <<>>
Get(d, k, default) == IF k \in DOMAIN d THEN d[k] ELSE default
Truthy(r) == r.kind = "dict" /\ DOMAIN r.d # {}
Dict(d) == [kind |-> "dict", d |-> d, bad |-> {}]
BadDict(d, keys) == [kind |-> "dict", d |-> d, bad |-> keys]
NoneValue == [kind |-> "none", d |-> EmptyDict, bad |-> {}]
Raise == [kind |-> "raise", d |-> EmptyDict, bad |-> {}]
IsBad(r, k) == r.kind = "dict" /\ k \in DOMAIN r.d /\ k \in r.bad

(***************************************************************************)
(* Oracle responses enumerated for the rate composer.                      *)
(***************************************************************************)
Trends == {"bullish", "bearish", "neutral"}
Regimes == {"low", "medium", "high", "extreme"}
RiskLevels == {"low", "medium", "high", "very_high"}
Confidences == Grid(100, ConfSteps)
Vols == Grid(200, VolSteps)
Changes == {-MaxChange, MaxChange}
Drawdowns == {0, 30}
TrendStrengths == {0, 16}

PredictionDicts ==
    { [trend |-> t, predicted_change_percent |-> ch, confidence_score |-> c] :
        t \in Trends, ch \in Changes, c \in Confidences }
VolatilityDicts ==
    { [annualized_volatility |-> av, volatility_regime |-> rg, max_drawdown |-> dd] :
        av \in Vols, rg \in Regimes, dd \in Drawdowns }
MlVolatilityDicts ==
    { [predicted_volatility |-> pv, risk_level |-> rl, trend_strength |-> ts] :
        pv \in Vols, rl \in {"low", "very_high"}, ts \in TrendStrengths }

\* Payloads at the defaults of the lookups (0.5, 0.03, 0.5, medium, medium,
\* neutral), with max_drawdown and trend_strength at their thresholds.
ExamplePrediction ==
    [trend |-> "neutral", predicted_change_percent |-> 0, confidence_score |-> 50]
ExampleVolatility ==
    [annualized_volatility |-> 50, volatility_regime |-> "medium", max_drawdown |-> 10]
ExampleMlVolatility ==
    [predicted_volatility |-> 3, risk_level |-> "medium", trend_strength |-> 15]

\* Payloads that omit some of their fields.
PartialPrediction == [trend |-> "bearish", predicted_change_percent |-> -MaxChange]
PartialVolatility == [max_drawdown |-> 30]
PartialMlVolatility == [trend_strength |-> 16]

\* Predictions around the thresholds of the trend term: a bearish and a
\* bullish move too small to reach the caps, confidence exactly at 0.6 and
\* 0.7, and a bullish change of exactly 5.
BoundaryPredictions ==
    { [trend |-> "bearish", predicted_change_percent |-> -10, confidence_score |-> 100],
      [trend |-> "bullish", predicted_change_percent |-> 10, confidence_score |-> 100],
      [trend |-> "bearish", predicted_change_percent |-> -MaxChange, confidence_score |-> 60],
      [trend |-> "bullish", predicted_change_percent |-> MaxChange, confidence_score |-> 70],
      [trend |-> "bullish", predicted_change_percent |-> 5, confidence_score |-> 100] }
\* Volatility payloads with max_drawdown at and between the thresholds of the
\* drawdown term.
BoundaryVolatilities ==
    { [ExampleVolatility EXCEPT !.max_drawdown = dd] : dd \in {12, 15, 20, 25} }

\* PredictionService._fallback_prediction, as far as the rate composer reads
\* it: the projected change decides the trend and the confidence is fixed.
fallback_prediction(predicted_change) ==
    [confidence_score |-> 55,
     trend |-> IF predicted_change > 0 THEN "bullish" ELSE "bearish",
     predicted_change_percent |-> predicted_change,
     model_version |-> "fallback_v1"]
FallbackPredictions == { fallback_prediction(ch) : ch \in Changes \cup {0} }

\* What PredictionService.get_prediction can hand back or do.
Predictions ==
    {Dict(d) : d \in PredictionDicts \cup BoundaryPredictions \cup FallbackPredictions}
        \cup {Dict(ExamplePrediction), Dict(PartialPrediction), Dict(EmptyDict),
              NoneValue, Raise,
              BadDict([trend |-> "neutral", confidence_score |-> 0], {"confidence_score"})}
\* MarketDataService.calculate_volatility.
Volatilities ==
    {Dict(d) : d \in VolatilityDicts \cup BoundaryVolatilities}
        \cup {Dict(ExampleVolatility), Dict(PartialVolatility), Dict(EmptyDict), Raise}
\* PredictionService.get_volatility_prediction.
MlVolatilities ==
    {Dict(d) : d \in MlVolatilityDicts}
        \cup {Dict(ExampleMlVolatility), Dict(PartialMlVolatility), Dict(EmptyDict),
              NoneValue, Raise}

(***************************************************************************)
(* Pools.  pool_data maps an asset to its totals; an asset without an      *)
(* entry is priced against the default pool of the lookup.  Totals are     *)
(* kept to values whose quotient is exact in units of 1/RS.                *)
(***************************************************************************)
PoolStep == 5 * 100
CryptoIds == {"ethereum", "bitcoin"}
SuppliedValues == {0, 10 * PoolStep, 20 * PoolStep}
BorrowedValues == {4 * k * PoolStep : k \in 0..MaxBorrowedSteps} \cup {13 * PoolStep}
ReserveFactors == {0, 10, 100}
Pools ==
    { [total_supplied |-> s, total_borrowed |-> b, reserve_factor |-> rf] :
        s \in SuppliedValues, b \in BorrowedValues, rf \in ReserveFactors }
SeedPool == [total_supplied |-> 20 * PoolStep, total_borrowed |-> 13 * PoolStep,
             reserve_factor |-> 10]
DefaultPool == [total_supplied |-> 20 * PoolStep, total_borrowed |-> 10 * PoolStep]

lookup_pool(pools, crypto_id) ==
    IF crypto_id \in DOMAIN pools THEN pools[crypto_id] ELSE DefaultPool

(***************************************************************************)
(* The rate formulas.                                                      *)
(***************************************************************************)
regime_multipliers == [low |-> 6, medium |-> 10, high |-> 14, extreme |-> 20]
risk_multipliers == [low |-> 8, medium |-> 10, high |-> 13, very_high |-> 16]

\* The premium with the forecast weighted by the whole confidence, not half.
calculate_volatility_premium_overweighted(volatility, prediction, ml_volatility) ==
    LET annualized_vol == Get(volatility.d, "annualized_volatility", 50)
        predicted_vol == Get(ml_volatility.d, "predicted_volatility", 3)
        confidence == Get(prediction.d, "confidence_score", 50)
        effective_vol ==
            IF Truthy(ml_volatility)
            THEN annualized_vol * (200 - 2 * confidence) + predicted_vol * 2 * confidence
            ELSE annualized_vol * 200
        uncertainty_factor == (100 - confidence) * 25 * (RS \div 100000)
        regime == Get(volatility.d, "volatility_regime", "medium")
        risk_level == Get(ml_volatility.d, "risk_level", "medium")
        risk_mult ==
            IF Truthy(ml_volatility)
            THEN Get(risk_multipliers, risk_level, 10)
            ELSE 10
        vol_premium == effective_vol * 12 * Get(regime_multipliers, regime, 10) * risk_mult
    IN  vol_premium + uncertainty_factor

\* The premium with the forecast subtracted from the blend instead of added.
calculate_volatility_premium_subtracting(volatility, prediction, ml_volatility) ==
    LET annualized_vol == Get(volatility.d, "annualized_volatility", 50)
        predicted_vol == Get(ml_volatility.d, "predicted_volatility", 3)
        confidence == Get(prediction.d, "confidence_score", 50)
        effective_vol ==
            IF Truthy(ml_volatility)
            THEN annualized_vol * (200 - confidence) - predicted_vol * confidence
            ELSE annualized_vol * 200
        uncertainty_factor == (100 - confidence) * 25 * (RS \div 100000)
        regime == Get(volatility.d, "volatility_regime", "medium")
        risk_level == Get(ml_volatility.d, "risk_level", "medium")
        risk_mult ==
            IF Truthy(ml_volatility)
            THEN Get(risk_multipliers, risk_level, 10)
            ELSE 10
        vol_premium == effective_vol * 12 * Get(regime_multipliers, regime, 10) * risk_mult
    IN  vol_premium + uncertainty_factor

\* _calculate_volatility_premium; the result is in units of 1/RS.
calculate_volatility_premium(volatility, prediction, ml_volatility) ==
    LET annualized_vol == Get(volatility.d, "annualized_volatility", 50)
        predicted_vol == Get(ml_volatility.d, "predicted_volatility", 3)
        confidence == Get(prediction.d, "confidence_score", 50)
        \* effective_vol in units of 1/(100 * 200)
        effective_vol ==
            IF Truthy(ml_volatility)
            THEN annualized_vol * (200 - confidence) + predicted_vol * confidence
            ELSE annualized_vol * 200
        uncertainty_factor == (100 - confidence) * 25 * (RS \div 100000)
        regime == Get(volatility.d, "volatility_regime", "medium")
        risk_level == Get(ml_volatility.d, "risk_level", "medium")
        risk_mult ==
            IF Truthy(ml_volatility)
            THEN Get(risk_multipliers, risk_level, 10)
            ELSE 10
        vol_premium == effective_vol * 12 * Get(regime_multipliers, regime, 10) * risk_mult
    IN  vol_premium + uncertainty_factor

\* The curve with the gentle slope kept above the optimal utilization.
calculate_utilization_factor_flat(pools, crypto_id) ==
    LET pool == lookup_pool(pools, crypto_id)
        total_supplied == Get(pool, "total_supplied", 20 * PoolStep)
        total_borrowed == Get(pool, "total_borrowed", 10 * PoolStep)
        utilization == total_borrowed * (RS \div total_supplied)
    IN  IF total_supplied = 0 THEN 0 ELSE (utilization * 5) \div 100

\* _calculate_utilization_factor.
calculate_utilization_factor(pools, crypto_id) ==
    LET pool == lookup_pool(pools, crypto_id)
        total_supplied == Get(pool, "total_supplied", 20 * PoolStep)
        total_borrowed == Get(pool, "total_borrowed", 10 * PoolStep)
        utilization == total_borrowed * (RS \div total_supplied)
        optimal_utilization == Pct(80)
        base_factor == (optimal_utilization * 5) \div 100
        excess == utilization - optimal_utilization
        jump_factor == excess \div 2
    IN  IF total_supplied = 0 THEN 0
        ELSE IF utilization <= optimal_utilization
             THEN (utilization * 5) \div 100
             ELSE base_factor + jump_factor

\* The adjustment with the bearish premium and the bullish discount left
\* without their caps.
calculate_risk_adjustment_uncapped(prediction, volatility, ml_volatility) ==
    LET trend == Get(prediction.d, "trend", "neutral")
        predicted_change == Get(prediction.d, "predicted_change_percent", 0)
        max_drawdown == Get(volatility.d, "max_drawdown", 10)
        confidence == Get(prediction.d, "confidence_score", 50)
        confidence_weight == Min(confidence, 95)
        bearish_premium == Abs(predicted_change) * confidence_weight * 4 * (RS \div 100000)
        bullish_discount == predicted_change * confidence * (RS \div 100000)
        trend_adj ==
            IF trend = "bearish" /\ confidence > 60 THEN bearish_premium
            ELSE IF trend = "bullish" /\ confidence > 70 /\ predicted_change > 5
                 THEN -bullish_discount
                 ELSE 0
        drawdown_adj ==
            IF max_drawdown > 25 THEN Pct(3)
            ELSE IF max_drawdown > 15 THEN Pct(2)
            ELSE IF max_drawdown > 10 THEN Pct(1)
            ELSE 0
        strength_adj ==
            IF Truthy(ml_volatility) /\ Get(ml_volatility.d, "trend_strength", 0) > 15
            THEN Mille(15)
            ELSE 0
    IN  trend_adj + drawdown_adj + strength_adj

\* The adjustment with the bearish premium applied from confidence 0.5 up.
calculate_risk_adjustment_eager(prediction, volatility, ml_volatility) ==
    LET trend == Get(prediction.d, "trend", "neutral")
        predicted_change == Get(prediction.d, "predicted_change_percent", 0)
        max_drawdown == Get(volatility.d, "max_drawdown", 10)
        confidence == Get(prediction.d, "confidence_score", 50)
        confidence_weight == Min(confidence, 95)
        bearish_premium ==
            Min(Abs(predicted_change) * confidence_weight * 4 * (RS \div 100000), Pct(8))
        bullish_discount ==
            Min(predicted_change * confidence * (RS \div 100000), Pct(2))
        trend_adj ==
            IF trend = "bearish" /\ confidence > 50 THEN bearish_premium
            ELSE IF trend = "bullish" /\ confidence > 50 /\ predicted_change > 5
                 THEN -bullish_discount
                 ELSE 0
        drawdown_adj ==
            IF max_drawdown > 25 THEN Pct(3)
            ELSE IF max_drawdown > 15 THEN Pct(2)
            ELSE IF max_drawdown > 10 THEN Pct(1)
            ELSE 0
        strength_adj ==
            IF Truthy(ml_volatility) /\ Get(ml_volatility.d, "trend_strength", 0) > 15
            THEN Mille(15)
            ELSE 0
    IN  trend_adj + drawdown_adj + strength_adj

\* _calculate_risk_adjustment.
calculate_risk_adjustment(prediction, volatility, ml_volatility) ==
    LET trend == Get(prediction.d, "trend", "neutral")
        predicted_change == Get(prediction.d, "predicted_change_percent", 0)
        max_drawdown == Get(volatility.d, "max_drawdown", 10)
        confidence == Get(prediction.d, "confidence_score", 50)
        confidence_weight == Min(confidence, 95)
        bearish_premium ==
            Min(Abs(predicted_change) * confidence_weight * 4 * (RS \div 100000), Pct(8))
        bullish_discount ==
            Min(predicted_change * confidence * (RS \div 100000), Pct(2))
        trend_adj ==
            IF trend = "bearish" /\ confidence > 60 THEN bearish_premium
            ELSE IF trend = "bullish" /\ confidence > 70 /\ predicted_change > 5
                 THEN -bullish_discount
                 ELSE 0
        drawdown_adj ==
            IF max_drawdown > 25 THEN Pct(3)
            ELSE IF max_drawdown > 15 THEN Pct(2)
            ELSE IF max_drawdown > 10 THEN Pct(1)
            ELSE 0
        strength_adj ==
            IF Truthy(ml_volatility) /\ Get(ml_volatility.d, "trend_strength", 0) > 15
            THEN Mille(15)
            ELSE 0
    IN  trend_adj + drawdown_adj + strength_adj

\* floor(a * b / ApyScale) for a, b >= 0, formed without leaving 32 bits.
MulScaled(a, b) ==
    LET a1 == a \div ApySplit
        a0 == a % ApySplit
        b1 == b \div ApySplit
        b0 == b % ApySplit
    IN  a1 * b1 + (a1 * b0 + a0 * b1 + (a0 * b0) \div ApySplit) \div ApySplit

\* The k-th and later terms C(365, k) * (r/365)^k of (1 + r/365)^365, the
\* (k-1)-th term being prev: term_k = term_(k-1) * r * (366 - k) / (365 * k).
RECURSIVE BinomialTail(_, _, _)
BinomialTail(r, prev, k) ==
    LET term == (MulScaled(prev, r) * (366 - k)) \div (365 * k)
    IN  IF k > 365 \/ term = 0 THEN 0 ELSE term + BinomialTail(r, term, k + 1)

\* The yield without compounding.
calculate_apy_simple(rate) ==
    LET r == rate \div (RS \div ApyScale)
    IN  IF r <= 0 THEN 0 ELSE r

\* _calculate_apy: (1 + rate/365)^365 - 1, expanded by the binomial theorem
\* and truncated to units of 1/ApyScale.
calculate_apy(rate) ==
    LET r == rate \div (RS \div ApyScale)
    IN  IF r <= 0 THEN 0 ELSE r + BinomialTail(r, r, 2)

(***************************************************************************)
(* _calculate_apy in binary64, at rates of a few units in the last place   *)
(* of 1.0.  The rate n * 365 * 2^-54 is a double and so is its quotient by *)
(* 365, n * 2^-54; 1 + n * 2^-54 is rounded to the nearest 1 + k * 2^-52,  *)
(* ties to even; (1 + k * 2^-52)^365 lies within 2^-80 of the double       *)
(* 1 + 365 * k * 2^-52 for the k drawn here, and subtracting 1 is exact.   *)
(***************************************************************************)
\* n / 4 rounded to the nearest integer, ties to the even one.
RoundQuarterToEven(n) ==
    LET q == n \div 4
        r == n % 4
    IN  IF r < 2 THEN q
        ELSE IF r > 2 THEN q + 1
        ELSE IF q % 2 = 0 THEN q ELSE q + 1

\* _calculate_apy at the rate n * 365 * 2^-54, in units of 2^-54.
calculate_apy_binary64(n) == 4 * 365 * RoundQuarterToEven(n)

\* The clamp without its upper bound.
ClampNoCeiling(settings, x) == Max(settings.min_rate, x)

\* max(min_rate, min(max_rate, x)).
Clamp(settings, x) == Max(settings.min_rate, Min(settings.max_rate, x))

(***************************************************************************)
(* calculate_interest_rate.                                                *)
(***************************************************************************)
\* The clock: datetime.now() in ticks of half an hour, read around a
\* midnight; isoformat() keeps every field of the datetime, so a timestamp
\* is recorded as its tick count.
TicksPerHour == 2
TicksPerDay == 24 * TicksPerHour
Nows == (TicksPerDay - 1)..(TicksPerDay - 1 + MaxNow)
\* now.replace(minute=0, second=0, microsecond=0)
truncate_to_hour(now) == (now \div TicksPerHour) * TicksPerHour

\* Whether the body of the try block raises: an oracle call raises, a
\* response is not a dict, or a value that is not a number reaches the
\* arithmetic or the percent format of the log line.
try_raises(prediction, volatility, ml_volatility) ==
    LET trend == Get(prediction.d, "trend", "neutral")
        confidence == Get(prediction.d, "confidence_score", 50)
    IN  \/ prediction.kind # "dict"
        \/ volatility.kind # "dict"
        \/ ml_volatility.kind # "dict"
        \/ IsBad(prediction, "confidence_score")
        \/ IsBad(volatility, "annualized_volatility")
        \/ IsBad(volatility, "max_drawdown")
        \/ Truthy(ml_volatility) /\ IsBad(ml_volatility, "predicted_volatility")
        \/ Truthy(ml_volatility) /\ IsBad(ml_volatility, "trend_strength")
        \/ /\ IsBad(prediction, "predicted_change_percent")
           /\ \/ trend = "bearish" /\ confidence > 60
              \/ trend = "bullish" /\ confidence > 70

\* The dict the try block returns.
rate_breakdown(settings, pools, crypto_id, prediction, volatility, ml_volatility, now) ==
    LET volatility_premium ==
            calculate_volatility_premium(volatility, prediction, ml_volatility)
        utilization_factor == calculate_utilization_factor(pools, crypto_id)
        risk_adjustment == calculate_risk_adjustment(prediction, volatility, ml_volatility)
        effective_rate ==
            Clamp(settings,
                  settings.base_rate + volatility_premium + utilization_factor
                      + risk_adjustment)
    IN  [cryptocurrency |-> crypto_id,
         current_rate |-> effective_rate,
         base_rate |-> settings.base_rate,
         volatility_premium |-> volatility_premium,
         utilization_factor |-> utilization_factor,
         risk_adjustment |-> risk_adjustment,
         effective_rate |-> effective_rate,
         apy |-> calculate_apy(effective_rate),
         next_update |-> truncate_to_hour(now) + TicksPerHour,
         rate_components |->
             [market_volatility |-> Get(volatility.d, "annualized_volatility", 0),
              predicted_volatility |-> Get(ml_volatility.d, "predicted_volatility", 0),
              predicted_trend |-> Get(prediction.d, "trend", "neutral"),
              predicted_change |-> Get(prediction.d, "predicted_change_percent", 0),
              confidence_score |-> Get(prediction.d, "confidence_score", 0),
              volatility_regime |-> Get(volatility.d, "volatility_regime", "medium"),
              risk_level |-> Get(ml_volatility.d, "risk_level", "medium")]]

\* _get_fallback_rate.
get_fallback_rate(settings, crypto_id, now) ==
    [cryptocurrency |-> crypto_id,
     current_rate |-> settings.base_rate + Pct(3),
     base_rate |-> settings.base_rate,
     volatility_premium |-> Pct(2),
     utilization_factor |-> Pct(1),
     risk_adjustment |-> 0,
     effective_rate |-> settings.base_rate + Pct(3),
     apy |-> calculate_apy(settings.base_rate + Pct(3)),
     next_update |-> now + TicksPerHour]

\* An outcome of a call: a returned value or an exception that escaped.
Returned(v) == [status |-> "returned", value |-> v]
Escaped == [status |-> "raised", value |-> EmptyDict]
NoCall == [status |-> "none", value |-> EmptyDict]

\* The handler with an except clause that catches nothing.
calculate_interest_rate_uncaught(settings, pools, crypto_id, prediction, volatility, ml_volatility, now) ==
    IF try_raises(prediction, volatility, ml_volatility)
    THEN Escaped
    ELSE Returned(rate_breakdown(settings, pools, crypto_id,
                                 prediction, volatility, ml_volatility, now))

\* try: ... except Exception: return self._get_fallback_rate(crypto_id)
calculate_interest_rate(settings, pools, crypto_id, prediction, volatility, ml_volatility, now) ==
    IF try_raises(prediction, volatility, ml_volatility)
    THEN Returned(get_fallback_rate(settings, crypto_id, now))
    ELSE Returned(rate_breakdown(settings, pools, crypto_id,
                                 prediction, volatility, ml_volatility, now))

(***************************************************************************)
(* calculate_borrow_rate.                                                  *)
(***************************************************************************)
Amounts == -1..MaxAmount
CollateralAmounts == -1..MaxCollateral
Prices == 0..MaxPrice
\* What MarketDataService.get_market_data can hand back or do, as seen at
\* the call site: a dict with current_price, a dict without it, a raise.
MarketResponses ==
    {Dict([current_price |-> pr]) : pr \in Prices} \cup {Dict(EmptyDict), Raise}

\* Whether the body of calculate_borrow_rate raises: a price lookup raises
\* or collateral_price_data["current_price"] is a KeyError.
borrow_raises(collateral_price_data, borrow_price_data) ==
    \/ collateral_price_data.kind # "dict"
    \/ borrow_price_data.kind # "dict"
    \/ "current_price" \notin DOMAIN collateral_price_data.d
    \/ "current_price" \notin DOMAIN borrow_price_data.d

\* The quotient without its guard.
collateral_ratio_unguarded(collateral_value, borrow_value) ==
    Rat(collateral_value, borrow_value)

\* collateral_value / borrow_value if borrow_value > 0 else 0
collateral_ratio_of(collateral_value, borrow_value) ==
    IF borrow_value > 0 THEN Rat(collateral_value, borrow_value) ELSE Rat(0, 1)

\* The tiers with their boundaries in the worse tier.
rate_adjustment_strict(collateral_ratio) ==
    IF RatGt(collateral_ratio, Rat(2, 1)) THEN -Mille(5)
    ELSE IF RatGt(collateral_ratio, Rat(3, 2)) THEN 0
    ELSE IF RatGt(collateral_ratio, Rat(5, 4)) THEN Pct(2)
    ELSE Pct(5)

\* The tier of the collateral ratio.
rate_adjustment_of(collateral_ratio) ==
    IF RatGe(collateral_ratio, Rat(2, 1)) THEN -Mille(5)
    ELSE IF RatGe(collateral_ratio, Rat(3, 2)) THEN 0
    ELSE IF RatGe(collateral_ratio, Rat(5, 4)) THEN Pct(2)
    ELSE Pct(5)

\* _calculate_loan_health_factor: collateral_ratio / 1.15
calculate_loan_health_factor(collateral_ratio) ==
    Rat(collateral_ratio.n * 100, collateral_ratio.d * 115)

\* The quote with final_rate left unclamped.
borrow_quote_unclamped(settings, rate_info, amount, collateral_amount, collateral_price_data, borrow_price_data) ==
    LET base_rate == rate_info.effective_rate
        collateral_value == collateral_amount * collateral_price_data.d["current_price"]
        borrow_value == amount * borrow_price_data.d["current_price"]
        collateral_ratio == collateral_ratio_of(collateral_value, borrow_value)
        rate_adjustment == rate_adjustment_of(collateral_ratio)
        final_rate == base_rate + rate_adjustment
    IN  [base_rate |-> base_rate,
         rate_adjustment |-> rate_adjustment,
         final_rate |-> final_rate,
         apy |-> calculate_apy(final_rate),
         collateral_ratio |-> collateral_ratio,
         health_factor |-> calculate_loan_health_factor(collateral_ratio),
         liquidation_threshold |-> Rat(115, 100)]

\* The dict calculate_borrow_rate returns, given the rate breakdown it awaited.
borrow_quote(settings, rate_info, amount, collateral_amount, collateral_price_data, borrow_price_data) ==
    LET base_rate == rate_info.effective_rate
        collateral_value == collateral_amount * collateral_price_data.d["current_price"]
        borrow_value == amount * borrow_price_data.d["current_price"]
        collateral_ratio == collateral_ratio_of(collateral_value, borrow_value)
        rate_adjustment == rate_adjustment_of(collateral_ratio)
        final_rate == Clamp(settings, base_rate + rate_adjustment)
    IN  [base_rate |-> base_rate,
         rate_adjustment |-> rate_adjustment,
         final_rate |-> final_rate,
         apy |-> calculate_apy(final_rate),
         collateral_ratio |-> collateral_ratio,
         health_factor |-> calculate_loan_health_factor(collateral_ratio),
         liquidation_threshold |-> Rat(115, 100)]

calculate_borrow_rate(settings, rate_info, amount, collateral_amount, collateral_price_data, borrow_price_data) ==
    IF borrow_raises(collateral_price_data, borrow_price_data)
    THEN Escaped
    ELSE Returned(borrow_quote(settings, rate_info, amount, collateral_amount,
                               collateral_price_data, borrow_price_data))

(***************************************************************************)
(* calculate_health_factor.                                                *)
(***************************************************************************)
\* get_user_positions: the totals of a wallet, in units of 250 USD; the
\* built-in read model answers 11250 / 4500 for every wallet.
UsdUnit == 25 * 10
MockPosition == [total_supplied_usd |-> 11250 \div UsdUnit,
                 total_borrowed_usd |-> 4500 \div UsdUnit]
Positions ==
    { [total_supplied_usd |-> c, total_borrowed_usd |-> d] :
        c \in 0..MaxUsd, d \in 0..MaxDebtUsd } \cup {MockPosition}

\* Positions of a large supplier with a small debt, around the totals
\* 4,995,000 / 4,250 USD whose weighted ratio is exactly 999.
LargePositions ==
    { [total_supplied_usd |-> 19980 + c, total_borrowed_usd |-> d] :
        c \in -MaxUsd..MaxUsd, d \in {0, 17} }

Inf == Rat(1, 0)

\* The evaluator with thresholds that include their boundary.
calculate_health_factor_inclusive(wallet_address, positions) ==
    LET total_collateral == positions.total_supplied_usd
        total_debt == positions.total_borrowed_usd
        health_factor ==
            IF total_debt = 0 THEN Inf
            ELSE Rat(total_collateral * 85, total_debt * 100)
        status ==
            IF total_debt = 0 THEN "no_debt"
            ELSE IF RatGe(health_factor, Rat(2, 1)) THEN "healthy"
            ELSE IF RatGe(health_factor, Rat(3, 2)) THEN "moderate"
            ELSE IF RatGe(health_factor, Rat(11, 10)) THEN "at_risk"
            ELSE "danger"
    IN  Returned([wallet_address |-> wallet_address,
                  health_factor |-> IF health_factor # Inf THEN health_factor
                                    ELSE Rat(999, 1),
                  status |-> status,
                  total_collateral_usd |-> total_collateral,
                  total_debt_usd |-> total_debt,
                  liquidation_threshold |-> Rat(85, 100)])

\* The evaluator handing back the infinity it computed.
calculate_health_factor_infinite(wallet_address, positions) ==
    LET total_collateral == positions.total_supplied_usd
        total_debt == positions.total_borrowed_usd
        health_factor ==
            IF total_debt = 0 THEN Inf
            ELSE Rat(total_collateral * 85, total_debt * 100)
        status ==
            IF total_debt = 0 THEN "no_debt"
            ELSE IF RatGt(health_factor, Rat(2, 1)) THEN "healthy"
            ELSE IF RatGt(health_factor, Rat(3, 2)) THEN "moderate"
            ELSE IF RatGt(health_factor, Rat(11, 10)) THEN "at_risk"
            ELSE "danger"
    IN  Returned([wallet_address |-> wallet_address,
                  health_factor |-> health_factor,
                  status |-> status,
                  total_collateral_usd |-> total_collateral,
                  total_debt_usd |-> total_debt,
                  liquidation_threshold |-> Rat(85, 100)])

\* The evaluator without the 0.85 weight on the collateral.
calculate_health_factor_unweighted(wallet_address, positions) ==
    LET total_collateral == positions.total_supplied_usd
        total_debt == positions.total_borrowed_usd
        health_factor ==
            IF total_debt = 0 THEN Inf
            ELSE Rat(total_collateral, total_debt)
        status ==
            IF total_debt = 0 THEN "no_debt"
            ELSE IF RatGt(health_factor, Rat(2, 1)) THEN "healthy"
            ELSE IF RatGt(health_factor, Rat(3, 2)) THEN "moderate"
            ELSE IF RatGt(health_factor, Rat(11, 10)) THEN "at_risk"
            ELSE "danger"
    IN  Returned([wallet_address |-> wallet_address,
                  health_factor |-> IF health_factor # Inf THEN health_factor
                                    ELSE Rat(999, 1),
                  status |-> status,
                  total_collateral_usd |-> total_collateral,
                  total_debt_usd |-> total_debt,
                  liquidation_threshold |-> Rat(85, 100)])

calculate_health_factor(wallet_address, positions) ==
    LET total_collateral == positions.total_supplied_usd
        total_debt == positions.total_borrowed_usd
        health_factor ==
            IF total_debt = 0 THEN Inf
            ELSE Rat(total_collateral * 85, total_debt * 100)
        status ==
            IF total_debt = 0 THEN "no_debt"
            ELSE IF RatGt(health_factor, Rat(2, 1)) THEN "healthy"
            ELSE IF RatGt(health_factor, Rat(3, 2)) THEN "moderate"
            ELSE IF RatGt(health_factor, Rat(11, 10)) THEN "at_risk"
            ELSE "danger"
    IN  Returned([wallet_address |-> wallet_address,
                  health_factor |-> IF health_factor # Inf THEN health_factor
                                    ELSE Rat(999, 1),
                  status |-> status,
                  total_collateral_usd |-> total_collateral,
                  total_debt_usd |-> total_debt,
                  liquidation_threshold |-> Rat(85, 100)])

(***************************************************************************)
(* get_pool_stats.                                                         *)
(***************************************************************************)
\* The accountant paying suppliers the whole borrow yield.
get_pool_stats_gross(pools, crypto_id, rate_info) ==
    LET pool == lookup_pool(pools, crypto_id)
        total_supplied == Get(pool, "total_supplied", 20 * PoolStep)
        total_borrowed == Get(pool, "total_borrowed", 10 * PoolStep)
        utilization ==
            IF total_supplied > 0 THEN total_borrowed * (RS \div total_supplied) ELSE 0
    IN  Returned([total_supplied |-> total_supplied,
                  total_borrowed |-> total_borrowed,
                  utilization_rate |-> utilization,
                  available_liquidity |-> total_supplied - total_borrowed,
                  current_interest_rate |-> rate_info.effective_rate,
                  supply_apy |-> rate_info.apy * 100,
                  borrow_apy |-> rate_info.apy])

\* utilization in units of 1/RS, supply_apy in units of 1/(100 * ApyScale).
get_pool_stats(pools, crypto_id, rate_info) ==
    LET pool == lookup_pool(pools, crypto_id)
        total_supplied == Get(pool, "total_supplied", 20 * PoolStep)
        total_borrowed == Get(pool, "total_borrowed", 10 * PoolStep)
        utilization ==
            IF total_supplied > 0 THEN total_borrowed * (RS \div total_supplied) ELSE 0
    IN  Returned([total_supplied |-> total_supplied,
                  total_borrowed |-> total_borrowed,
                  utilization_rate |-> utilization,
                  available_liquidity |-> total_supplied - total_borrowed,
                  current_interest_rate |-> rate_info.effective_rate,
                  supply_apy |-> rate_info.apy * (100 - Get(pool, "reserve_factor", 10)),
                  borrow_apy |-> rate_info.apy])

(***************************************************************************)
(* get_rate_history.                                                       *)
(***************************************************************************)
\* np.random.normal(0, 0.002), at draws that reach both ends of the clamp.
Variations == {-Pct(3), 0, Pct(3)}
\* range(days, 0, -1): days, days - 1, ..., 1; empty for days < 1.
range_desc(days) == [k \in 1..days |-> days - k + 1]
\* strftime("%Y-%m-%d"): the day of a timestamp, its time of day dropped.
strftime_date(t) == t \div TicksPerDay

\* The walk with every step taken from self.base_rate.
get_rate_history_restarting(settings, crypto_id, days, variations, nows) ==
    LET steps == range_desc(days)
        rates[k \in DOMAIN steps] == Clamp(settings, settings.base_rate + variations[k])
    IN  Returned([k \in DOMAIN steps |->
                     [date |-> strftime_date(nows[k] - steps[k] * TicksPerDay),
                      rate |-> rates[k],
                      apy |-> calculate_apy(rates[k])]])

\* get_rate_history: variations[k] and nows[k] are the draw and the clock
\* reading of the k-th iteration.
get_rate_history(settings, crypto_id, days, variations, nows) ==
    LET steps == range_desc(days)
        rates[k \in DOMAIN steps] ==
            Clamp(settings,
                  (IF k = 1 THEN settings.base_rate ELSE rates[k - 1]) + variations[k])
    IN  Returned([k \in DOMAIN steps |->
                     [date |-> strftime_date(nows[k] - steps[k] * TicksPerDay),
                      rate |-> rates[k],
                      apy |-> calculate_apy(rates[k])]])

(***************************************************************************)
(* The service as a state machine: a caller issues one call at a time, the *)
(* handler runs to its return (or to the exception that escapes it), and   *)
(* the caller takes the outcome.                                           *)
(***************************************************************************)
Idle == [op |-> "idle"]

\* Pools the rate composer is run against: empty, idle, seed and fully lent.
RatePools ==
    { p \in Pools :
        /\ p.reserve_factor = 10
        /\ \/ p.total_supplied = 0 /\ p.total_borrowed = 0
           \/ p.total_supplied = 20 * PoolStep
                 /\ p.total_borrowed \in {0, 13 * PoolStep, 20 * PoolStep} }

\* InterestRateService.__init__ over the settings and pool totals drawn.
InitOver(settings_set, pool_set) ==
    /\ cfg \in settings_set
    /\ pool_data \in {[ethereum |-> p] : p \in pool_set}
    /\ req = Idle
    /\ ret = NoCall
    /\ base_rate_info = NoCall
    /\ clock = 0
    /\ cache = EmptyDict
    /\ prediction_cache = EmptyDict
    /\ model_files = [model_id \in {"ethereum", "bitcoin"} |-> 0]

Init == InitOver(Settings, RatePools)

\* The services as constructed, under the default settings.
InitService == InitOver({DefaultSettings}, {SeedPool})

\* Oracle responses at the corners of the rate: the lowest and the highest
\* composed rate, and the failure of the first oracle.
CornerPredictions ==
    { Raise,
      Dict([trend |-> "bullish", predicted_change_percent |-> MaxChange,
            confidence_score |-> 100]),
      Dict([trend |-> "bearish", predicted_change_percent |-> -MaxChange,
            confidence_score |-> 100]) }
CornerVolatilities ==
    { Dict([annualized_volatility |-> 0, volatility_regime |-> "low",
            max_drawdown |-> 0]),
      Dict([annualized_volatility |-> 200, volatility_regime |-> "extreme",
            max_drawdown |-> 30]) }
CornerMlVolatilities ==
    { Dict([predicted_volatility |-> 0, risk_level |-> "low", trend_strength |-> 0]),
      Dict([predicted_volatility |-> 3, risk_level |-> "medium", trend_strength |-> 0]) }

\* await interest_service.calculate_interest_rate(crypto_id)
CalculateInterestRate ==
    /\ req = Idle
    /\ \E crypto_id \in CryptoIds, prediction \in Predictions,
          volatility \in Volatilities, ml_volatility \in MlVolatilities,
          now \in Nows :
          /\ req' = [op |-> "calculate_interest_rate", crypto_id |-> crypto_id,
                     prediction |-> prediction, volatility |-> volatility,
                     ml_volatility |-> ml_volatility, now |-> now]
          /\ ret' = calculate_interest_rate(cfg, pool_data, crypto_id,
                                            prediction, volatility, ml_volatility, now)
    /\ UNCHANGED <<cfg, pool_data, base_rate_info, service_state>>

\* await interest_service.calculate_borrow_rate(crypto_id, amount,
\*     collateral_amount, collateral_type): the nested rate call, the two
\* price lookups, the quote.
CalculateBorrowRate ==
    /\ req = Idle
    /\ \E crypto_id \in CryptoIds, amount \in Amounts,
          collateral_amount \in CollateralAmounts,
          prediction \in CornerPredictions, volatility \in CornerVolatilities,
          ml_volatility \in CornerMlVolatilities,
          collateral_price_data \in MarketResponses,
          borrow_price_data \in MarketResponses, now \in Nows :
          LET rate_info == calculate_interest_rate(cfg, pool_data, crypto_id,
                                                   prediction, volatility, ml_volatility,
                                                   now)
          IN  /\ req' = [op |-> "calculate_borrow_rate", crypto_id |-> crypto_id,
                         amount |-> amount, collateral_amount |-> collateral_amount,
                         prediction |-> prediction, volatility |-> volatility,
                         ml_volatility |-> ml_volatility, now |-> now,
                         collateral_price_data |-> collateral_price_data,
                         borrow_price_data |-> borrow_price_data]
              /\ base_rate_info' = rate_info
              /\ ret' = IF rate_info.status = "raised" THEN Escaped
                        ELSE calculate_borrow_rate(cfg, rate_info.value, amount,
                                                   collateral_amount,
                                                   collateral_price_data,
                                                   borrow_price_data)
    /\ UNCHANGED <<cfg, pool_data, service_state>>

\* await interest_service.get_pool_stats(crypto_id)
GetPoolStats ==
    /\ req = Idle
    /\ \E crypto_id \in CryptoIds, prediction \in CornerPredictions,
          volatility \in CornerVolatilities, ml_volatility \in CornerMlVolatilities,
          now \in Nows :
          LET rate_info == calculate_interest_rate(cfg, pool_data, crypto_id,
                                                   prediction, volatility, ml_volatility,
                                                   now)
          IN  /\ req' = [op |-> "get_pool_stats", crypto_id |-> crypto_id,
                         prediction |-> prediction, volatility |-> volatility,
                         ml_volatility |-> ml_volatility, now |-> now]
              /\ base_rate_info' = rate_info
              /\ ret' = IF rate_info.status = "raised" THEN Escaped
                        ELSE get_pool_stats(pool_data, crypto_id, rate_info.value)
    /\ UNCHANGED <<cfg, pool_data, service_state>>

\* await interest_service.calculate_health_factor(wallet_address)
CalculateHealthFactor ==
    /\ req = Idle
    /\ \E positions \in Positions :
          /\ req' = [op |-> "calculate_health_factor", wallet_address |-> "0xabc",
                     positions |-> positions]
          /\ ret' = calculate_health_factor("0xabc", positions)
    /\ UNCHANGED <<cfg, pool_data, base_rate_info, service_state>>

\* calculate_health_factor for a wallet whose read model holds a large
\* position.
CalculateHealthFactorOfLargePosition ==
    /\ req = Idle
    /\ \E positions \in LargePositions :
          /\ req' = [op |-> "calculate_health_factor", wallet_address |-> "0xabc",
                     positions |-> positions]
          /\ ret' = calculate_health_factor("0xabc", positions)
    /\ UNCHANGED <<cfg, pool_data, base_rate_info, service_state>>

\* The caller has the outcome; the service is ready for the next call.
Respond ==
    /\ req # Idle
    /\ req' = Idle
    /\ ret' = NoCall
    /\ base_rate_info' = NoCall
    /\ UNCHANGED <<cfg, pool_data, service_state>>

\* Rates handed to _calculate_apy: zero, the ten-thousandths from 0.002
\* (below it the second-order term of the expansion is under 1/ApyScale,
\* the resolution of calculate_apy) up to the largest rate the engine forms,
\* and multiples of 365 * 2^-54.
ApyRates == {0} \cup {Bp(k) : k \in MinRateBp..MaxRateBp}
TinyRates == 0..MaxQuarterUlps

\* self._calculate_apy(rate); rate and apy are recorded in one unit, 1/RS
\* for the fixed-point rates and 2^-54 for the binary64 ones.
CalculateApy ==
    /\ req = Idle
    /\ \/ \E rate \in ApyRates :
             /\ req' = [op |-> "calculate_apy", scale |-> "fixed", rate |-> rate]
             /\ ret' = Returned([apy |-> calculate_apy(rate) * (RS \div ApyScale)])
       \/ \E n \in TinyRates :
             /\ req' = [op |-> "calculate_apy", scale |-> "binary64", rate |-> 365 * n]
             /\ ret' = Returned([apy |-> calculate_apy_binary64(n)])
    /\ UNCHANGED <<cfg, pool_data, base_rate_info, service_state>>

\* The rate composer.
Next ==
    \/ CalculateInterestRate
    \/ Respond

Spec == Init /\ [][Next]_vars

\* The borrow pricer, on the seed pool.
InitBorrow == InitOver(Settings, {SeedPool})

NextBorrow ==
    \/ CalculateBorrowRate
    \/ Respond

SpecBorrow == InitBorrow /\ [][NextBorrow]_vars

\* The pool accountant, over every pool.
InitPool == InitOver({DefaultSettings}, Pools)

NextPool ==
    \/ GetPoolStats
    \/ Respond

SpecPool == InitPool /\ [][NextPool]_vars

\* The position/health evaluator.
InitHealth == InitOver({DefaultSettings}, {SeedPool})

NextHealth ==
    \/ CalculateHealthFactor
    \/ Respond

SpecHealth == InitHealth /\ [][NextHealth]_vars

(***************************************************************************)
(* calculate_interest_rate as the coroutine it is: it suspends at each of  *)
(* its three awaits until the oracle awaited answers.  An oracle answers   *)
(* with a payload, raises, or never answers; the coroutine has no step of  *)
(* its own while it is suspended (no wait_for, no timeout, no retry).      *)
(***************************************************************************)
Pending == [kind |-> "pending", d |-> EmptyDict, bad |-> {}]
Hung == [kind |-> "hung", d |-> EmptyDict, bad |-> {}]
NotRead == -1

Awaiting(step) == req # Idle /\ req.pc = step /\ req[step] = Pending

\* The caller awaits calculate_interest_rate(crypto_id); line 63 is reached.
StartCalculateInterestRate ==
    /\ req = Idle
    /\ \E crypto_id \in CryptoIds :
          req' = [op |-> "calculate_interest_rate", crypto_id |-> crypto_id,
                  pc |-> "prediction", prediction |-> Pending,
                  volatility |-> Pending, ml_volatility |-> Pending,
                  now |-> NotRead]
    /\ ret' = NoCall
    /\ UNCHANGED <<cfg, pool_data, base_rate_info, service_state>>

\* The oracle awaited at `step` answers r: a raise is caught by the except
\* clause, which returns the fallback; any other answer resumes the
\* coroutine up to the await of `next`.
OracleResponds(step, next, responses) ==
    /\ Awaiting(step)
    /\ \E r \in responses, now \in Nows :
          IF r.kind = "raise"
          THEN /\ req' = [req EXCEPT ![step] = r, !.pc = "done", !.now = now]
               /\ ret' = Returned(get_fallback_rate(cfg, req.crypto_id, now))
          ELSE /\ req' = [req EXCEPT ![step] = r, !.pc = next]
               /\ ret' = ret
    /\ UNCHANGED <<cfg, pool_data, base_rate_info, service_state>>

\* The oracle awaited at `step` never answers.
OracleHangs(step) ==
    /\ Awaiting(step)
    /\ req' = [req EXCEPT ![step] = Hung]
    /\ UNCHANGED <<cfg, pool_data, ret, base_rate_info, service_state>>

\* await self.prediction_service.get_prediction(crypto_id)
GetPredictionResponds == OracleResponds("prediction", "volatility", CornerPredictions \cup {NoneValue})
GetPredictionHangs == OracleHangs("prediction")
\* await self.market_service.calculate_volatility(crypto_id)
CalculateVolatilityResponds == OracleResponds("volatility", "ml_volatility", CornerVolatilities \cup {Raise})
CalculateVolatilityHangs == OracleHangs("volatility")
GetVolatilityPredictionHangs == OracleHangs("ml_volatility")

\* await self.prediction_service.get_volatility_prediction(crypto_id), and
\* with its answer the rest of the body, to the return of the try block or
\* of the except clause.
GetVolatilityPredictionResponds ==
    /\ Awaiting("ml_volatility")
    /\ \E r \in CornerMlVolatilities \cup {Raise}, now \in Nows :
          /\ req' = [req EXCEPT !.ml_volatility = r, !.pc = "done", !.now = now]
          /\ ret' = calculate_interest_rate(cfg, pool_data, req.crypto_id,
                                            req.prediction, req.volatility, r, now)
    /\ UNCHANGED <<cfg, pool_data, base_rate_info, service_state>>

\* The caller resumes with the value returned.
ReturnToCaller ==
    /\ req # Idle
    /\ req.pc = "done"
    /\ req' = Idle
    /\ ret' = NoCall
    /\ UNCHANGED <<cfg, pool_data, base_rate_info, service_state>>

\* The position/health evaluator on large positions.
NextLargeHealth ==
    \/ CalculateHealthFactorOfLargePosition
    \/ Respond

SpecLargeHealth == InitService /\ [][NextLargeHealth]_vars

(***************************************************************************)
(* The /pool/borrow route.  The handler awaits calculate_borrow_rate, then *)
(* prepare_borrow_transaction, which awaits calculate_borrow_rate again;   *)
(* each evaluation asks the oracles anew.                                  *)
(***************************************************************************)
\* What the oracles answer during one evaluation of calculate_borrow_rate.
RouteOracles ==
    LET prices == {Dict([current_price |-> pr]) : pr \in 1..MaxPrice}
    IN  [prediction : CornerPredictions,
         volatility : CornerVolatilities,
         ml_volatility : {Dict(ExampleMlVolatility)},
         collateral_price_data : prices \cup {Raise},
         borrow_price_data : prices]

\* One evaluation of calculate_borrow_rate against the answers o: the nested
\* rate call, the two price lookups, the quote.
evaluate_borrow_rate(settings, pools, crypto_id, amount, collateral_amount, o, now) ==
    LET rate_info == calculate_interest_rate(settings, pools, crypto_id, o.prediction,
                                             o.volatility, o.ml_volatility, now)
    IN  IF rate_info.status = "raised" THEN Escaped
        ELSE calculate_borrow_rate(settings, rate_info.value, amount, collateral_amount,
                                   o.collateral_price_data, o.borrow_price_data)

\* prepare_borrow_transaction, given the outcome of the evaluation it awaits.
prepare_borrow_transaction(wallet_address, crypto_id, amount, collateral_amount, collateral_type, borrow_rate) ==
    IF borrow_rate.status = "raised" THEN Escaped
    ELSE Returned([function |-> "borrow",
                   contract_address |-> "LENDING_POOL_ADDRESS",
                   amount |-> amount,
                   collateral_amount |-> collateral_amount,
                   collateral_type |-> collateral_type,
                   interest_rate |-> borrow_rate.value.final_rate,
                   health_factor |-> borrow_rate.value.health_factor,
                   estimated_gas |-> 250000,
                   wallet_address |-> wallet_address])

\* borrow_from_pool up to the return of its first await: the route's own
\* evaluation of calculate_borrow_rate.  An exception becomes the HTTP 500
\* of the except branch.
BorrowFromPool ==
    /\ req = Idle
    /\ \E crypto_id \in CryptoIds, amount \in Amounts,
          collateral_amount \in CollateralAmounts, o \in RouteOracles, now \in Nows :
          LET interest_rate == evaluate_borrow_rate(cfg, pool_data, crypto_id, amount,
                                                    collateral_amount, o, now)
              raised == interest_rate.status = "raised"
          IN  /\ req' = [op |-> "borrow_from_pool",
                         pc |-> IF raised THEN "done" ELSE "prepare",
                         wallet_address |-> "0xabc", cryptocurrency |-> crypto_id,
                         amount |-> amount, collateral_amount |-> collateral_amount,
                         collateral_type |-> "ethereum",
                         first |-> o, second |-> o,
                         interest_rate |-> interest_rate.value]
              /\ ret' = IF raised THEN Escaped ELSE NoCall
    /\ UNCHANGED <<cfg, pool_data, base_rate_info, service_state>>

\* borrow_from_pool from its second await to its return:
\* prepare_borrow_transaction evaluates calculate_borrow_rate again, against
\* what the oracles answer by then.
BorrowFromPoolPrepare ==
    /\ req.op = "borrow_from_pool"
    /\ req.pc = "prepare"
    /\ \E o \in RouteOracles, now \in Nows :
          LET borrow_rate == evaluate_borrow_rate(cfg, pool_data, req.cryptocurrency,
                                                  req.amount, req.collateral_amount,
                                                  o, now)
              tx_data == prepare_borrow_transaction(req.wallet_address,
                                                    req.cryptocurrency, req.amount,
                                                    req.collateral_amount,
                                                    req.collateral_type, borrow_rate)
          IN  /\ req' = [req EXCEPT !.pc = "done", !.second = o]
              /\ ret' = IF tx_data.status = "raised" THEN Escaped
                        ELSE Returned([status |-> "prepared",
                                       interest_rate |-> req.interest_rate,
                                       transaction_data |-> tx_data.value])
    /\ UNCHANGED <<cfg, pool_data, base_rate_info, service_state>>

NextRoute ==
    \/ BorrowFromPool
    \/ BorrowFromPoolPrepare
    \/ ReturnToCaller

SpecRoute == InitService /\ [][NextRoute]_vars

(***************************************************************************)
(* MarketDataService.calculate_volatility.  The price history is seen by   *)
(* its length and by the two figures measured on it (annualized volatility *)
(* and max drawdown, in hundredths).                                       *)
(***************************************************************************)
DefaultWindow == 30
\* Windows a caller asks for, and history lengths around the window.
Windows == {DefaultWindow \div 2, DefaultWindow}
HistoryLengths(window) == {0, window - 1, window, window + 7}
\* Annualized volatilities measured on a history: at, just below and between
\* the thresholds of the classification.
MeasuredVols == {0, 29, 30, 59, 60, 67, 99, 100, 150}

\* _get_mock_volatility
get_mock_volatility(asset_id) ==
    [asset |-> asset_id,
     annualized_volatility |-> 67,
     max_drawdown |-> 15,
     volatility_regime |-> "medium",
     calculation_window |-> DefaultWindow]

\* calculate_volatility on a history of the given length whose returns
\* measure annualized_volatility and whose prices measure max_drawdown.
calculate_volatility(asset_id, window, history_len, annualized_volatility, max_drawdown) ==
    LET regime ==
            IF annualized_volatility < 30 THEN "low"
            ELSE IF annualized_volatility < 60 THEN "medium"
            ELSE IF annualized_volatility < 100 THEN "high"
            ELSE "extreme"
    IN  IF history_len < window
        THEN get_mock_volatility(asset_id)
        ELSE [asset |-> asset_id,
              annualized_volatility |-> annualized_volatility,
              max_drawdown |-> max_drawdown,
              volatility_regime |-> regime,
              calculation_window |-> window]

\* await market_service.calculate_volatility(asset_id, window)
CalculateVolatility ==
    /\ req = Idle
    /\ \E asset_id \in CryptoIds, window \in Windows,
          annualized_volatility \in MeasuredVols, max_drawdown \in Drawdowns :
          \E history_len \in HistoryLengths(window) :
              /\ req' = [op |-> "calculate_volatility", asset_id |-> asset_id,
                         window |-> window, history_len |-> history_len,
                         annualized_volatility |-> annualized_volatility,
                         max_drawdown |-> max_drawdown]
              /\ ret' = Returned(calculate_volatility(asset_id, window, history_len,
                                                      annualized_volatility,
                                                      max_drawdown))
    /\ UNCHANGED <<cfg, pool_data, base_rate_info, service_state>>

NextVolatility ==
    \/ CalculateVolatility
    \/ Respond

SpecVolatility == InitService /\ [][NextVolatility]_vars

(***************************************************************************)
(* MarketDataService.get_market_data and its cache.  The clock counts      *)
(* minutes; the live fetch runs in an executor, so the handler is a        *)
(* coroutine that is suspended between its cache check and its store.      *)
(***************************************************************************)
\* cache_duration = timedelta(minutes=5)
CacheMinutes == 5

\* What the two yfinance fetches give: a quote, nothing, or an exception.
LiveFetches ==
    {[kind |-> "quote", current_price |-> pr] : pr \in 1..MaxPrice}
        \cup {[kind |-> "empty"], [kind |-> "raise"]}

\* The cache check with the boundary age still served.
cache_hit_inclusive(entries, cache_key, now, cache_duration) ==
    /\ cache_key \in DOMAIN entries
    /\ now - entries[cache_key].cached_time <= cache_duration

\* if cache_key in self.cache: ... if datetime.now() - cached_time < self.cache_duration
cache_hit(entries, cache_key, now, cache_duration) ==
    /\ cache_key \in DOMAIN entries
    /\ now - entries[cache_key].cached_time < cache_duration

\* self.cache[cache_key] = (result, datetime.now())
cache_store(entries, cache_key, result, now) ==
    [k \in DOMAIN entries \cup {cache_key} |->
        IF k = cache_key THEN [data |-> result, cached_time |-> now] ELSE entries[k]]

\* _get_mock_market_data, prices in cents
mock_prices == [ethereum |-> 225050, bitcoin |-> 4350000]
get_mock_market_data(asset_id) ==
    [asset |-> asset_id, current_price |-> Get(mock_prices, asset_id, 10000),
     source |-> "mock"]

\* The result dict built from a live quote.
live_market_data(asset_id, fetched) ==
    [asset |-> asset_id, current_price |-> fetched.current_price, source |-> "yfinance"]

\* Time passes.
Tick ==
    /\ clock < MaxClock
    /\ clock' = clock + 1
    /\ UNCHANGED <<cfg, pool_data, req, ret, base_rate_info,
                   cache, prediction_cache, model_files>>

\* get_market_data up to its first await: a fresh cache entry is returned,
\* otherwise the live fetch is started.
GetMarketData ==
    /\ req = Idle
    /\ \E asset_id \in CryptoIds :
          IF cache_hit(cache, asset_id, clock, CacheMinutes)
          THEN /\ req' = [op |-> "get_market_data", asset_id |-> asset_id,
                          pc |-> "done", now |-> clock, from |-> "cache"]
               /\ ret' = Returned(cache[asset_id].data)
          ELSE /\ req' = [op |-> "get_market_data", asset_id |-> asset_id,
                          pc |-> "fetch", now |-> clock, from |-> "none"]
               /\ ret' = NoCall
    /\ UNCHANGED <<cfg, pool_data, base_rate_info, clock, cache,
                   prediction_cache, model_files>>

\* get_market_data from the return of the fetches to its return: a quote is
\* stored under the time of the store and returned; an empty or failed
\* fetch is answered with mock data.
GetMarketDataFetched ==
    /\ req.op = "get_market_data"
    /\ req.pc = "fetch"
    /\ \E fetched \in LiveFetches :
          IF fetched.kind = "quote"
          THEN LET result == live_market_data(req.asset_id, fetched)
               IN  /\ cache' = cache_store(cache, req.asset_id, result, clock)
                   /\ ret' = Returned(result)
                   /\ req' = [req EXCEPT !.pc = "done", !.from = "live"]
          ELSE /\ cache' = cache
               /\ ret' = Returned(get_mock_market_data(req.asset_id))
               /\ req' = [req EXCEPT !.pc = "done", !.from = fetched.kind]
    /\ UNCHANGED <<cfg, pool_data, base_rate_info, clock, prediction_cache, model_files>>

NextMarket ==
    \/ GetMarketData
    \/ GetMarketDataFetched
    \/ Tick
    \/ ReturnToCaller

SpecMarket == InitService /\ [][NextMarket]_vars

(***************************************************************************)
(* PredictionService: get_prediction with its cache, and train_model.      *)
(* A model file is known by the number of trainings that have saved it     *)
(* (0: no file); a prediction carries the number of the file it was        *)
(* computed from.                                                          *)
(***************************************************************************)
\* cache_duration = timedelta(minutes=15)
PredictionCacheMinutes == 15
\* The clock of this service advances in steps of five minutes.
ClockStep == 5
MaxPredictionClock == 20
MaxTrainings == 2

CRYPTO_MAP ==
    [ethereum |-> [symbol |-> "ETH-USD", model_id |-> "ethereum"],
     bitcoin |-> [symbol |-> "BTC-USD", model_id |-> "bitcoin"],
     eth |-> [symbol |-> "ETH-USD", model_id |-> "ethereum"],
     btc |-> [symbol |-> "BTC-USD", model_id |-> "bitcoin"],
     chainlink |-> [symbol |-> "LINK-USD", model_id |-> "ethereum"]]

\* _get_crypto_info
get_crypto_info(crypto_id) ==
    IF crypto_id \in DOMAIN CRYPTO_MAP THEN CRYPTO_MAP[crypto_id]
    ELSE [symbol |-> "USD", model_id |-> "ethereum"]

\* The asset ids callers ask about: an asset, its alias, an asset that
\* borrows the model of another, and an asset with a model of its own.
PredictionIds == {"ethereum", "eth", "chainlink", "bitcoin"}

\* del self.prediction_cache[cache_key], if present
cache_delete(entries, cache_key) ==
    [k \in DOMAIN entries \ {cache_key} |-> entries[k]]

\* The dict get_prediction builds from the model's prediction.
model_prediction(crypto_id, files, now) ==
    LET crypto_info == get_crypto_info(crypto_id)
    IN  [cryptocurrency |-> crypto_id,
         symbol |-> crypto_info.symbol,
         model_id |-> crypto_info.model_id,
         model_version |-> "1.0.0",
         model_generation |-> files[crypto_info.model_id],
         prediction_date |-> now]

\* The dict of _fallback_prediction, as far as this service is concerned.
fallback_prediction_for(crypto_id, now) ==
    [cryptocurrency |-> crypto_id, model_version |-> "fallback_v1",
     prediction_date |-> now]

\* Time passes.
PredictionTick ==
    /\ clock + ClockStep <= MaxPredictionClock
    /\ clock' = clock + ClockStep
    /\ UNCHANGED <<cfg, pool_data, req, ret, base_rate_info,
                   cache, prediction_cache, model_files>>

\* get_prediction: a fresh cache entry; else the fallback when no model file
\* loads or the price data is insufficient or anything raises; else the
\* model's prediction, which is cached.
GetPrediction ==
    /\ req = Idle
    /\ \E crypto_id \in PredictionIds, data_ok \in BOOLEAN :
          LET model_id == get_crypto_info(crypto_id).model_id
              model_loaded == model_files[model_id] > 0
              prediction == model_prediction(crypto_id, model_files, clock)
          IN  IF cache_hit(prediction_cache, crypto_id, clock, PredictionCacheMinutes)
              THEN /\ req' = [op |-> "get_prediction", crypto_id |-> crypto_id,
                              pc |-> "done", now |-> clock, from |-> "cache"]
                   /\ ret' = Returned(prediction_cache[crypto_id].data)
                   /\ prediction_cache' = prediction_cache
              ELSE IF ~model_loaded \/ ~data_ok
              THEN /\ req' = [op |-> "get_prediction", crypto_id |-> crypto_id,
                              pc |-> "done", now |-> clock, from |-> "fallback"]
                   /\ ret' = Returned(fallback_prediction_for(crypto_id, clock))
                   /\ prediction_cache' = prediction_cache
              ELSE /\ req' = [op |-> "get_prediction", crypto_id |-> crypto_id,
                              pc |-> "done", now |-> clock, from |-> "model"]
                   /\ ret' = Returned(prediction)
                   /\ prediction_cache' =
                          cache_store(prediction_cache, crypto_id, prediction, clock)
    /\ UNCHANGED <<cfg, pool_data, base_rate_info, clock, cache, model_files>>

\* train_model: on success the model file of the asset's model_id is
\* replaced and the cache entry of the asset id is deleted; on failure the
\* exception is re-raised with nothing changed.
TrainModel ==
    /\ req = Idle
    /\ \E crypto_id \in PredictionIds, trained \in BOOLEAN :
          LET model_id == get_crypto_info(crypto_id).model_id
          IN  /\ req' = [op |-> "train_model", crypto_id |-> crypto_id,
                         pc |-> "done", now |-> clock,
                         from |-> IF trained THEN "trainer" ELSE "raise"]
              /\ IF trained
                 THEN /\ model_files[model_id] < MaxTrainings
                      /\ model_files' = [model_files EXCEPT ![model_id] = @ + 1]
                      /\ prediction_cache' = cache_delete(prediction_cache, crypto_id)
                      /\ ret' = Returned([model_id |-> model_id])
                 ELSE /\ model_files' = model_files
                      /\ prediction_cache' = prediction_cache
                      /\ ret' = Escaped
    /\ UNCHANGED <<cfg, pool_data, base_rate_info, clock, cache>>

NextPrediction ==
    \/ GetPrediction
    \/ TrainModel
    \/ PredictionTick
    \/ ReturnToCaller

SpecPrediction == InitService /\ [][NextPrediction]_vars

InitAwait == InitOver(Settings, {SeedPool})

NextAwait ==
    \/ StartCalculateInterestRate
    \/ GetPredictionResponds
    \/ GetPredictionHangs
    \/ CalculateVolatilityResponds
    \/ CalculateVolatilityHangs
    \/ GetVolatilityPredictionResponds
    \/ GetVolatilityPredictionHangs
    \/ ReturnToCaller

\* The event loop runs whatever is ready to run.
SpecAwait == InitAwait /\ [][NextAwait]_vars /\ WF_vars(NextAwait)

\* Clock readings of successive iterations: time does not run backwards.
ClockReadings(n) ==
    { nows \in [1..n -> Nows] : \A k \in 1..(n - 1) : nows[k] <= nows[k + 1] }

\* await interest_service.get_rate_history(crypto_id, days)
GetRateHistory ==
    /\ req = Idle
    /\ \E crypto_id \in CryptoIds, days \in -1..MaxDays :
          \E variations \in [1..days -> Variations], nows \in ClockReadings(days) :
             /\ req' = [op |-> "get_rate_history", crypto_id |-> crypto_id,
                        days |-> days, variations |-> variations, nows |-> nows]
             /\ ret' = get_rate_history(cfg, crypto_id, days, variations, nows)
    /\ UNCHANGED <<cfg, pool_data, base_rate_info, service_state>>

\* The rate history.
InitHistory == InitOver(Settings, {SeedPool})

NextHistory ==
    \/ GetRateHistory
    \/ Respond

SpecHistory == InitHistory /\ [][NextHistory]_vars

\* The yield conversion.
InitApy == InitOver({DefaultSettings}, {SeedPool})

NextApy ==
    \/ CalculateApy
    \/ Respond

SpecApy == InitApy /\ [][NextApy]_vars

(***************************************************************************)
(* Properties of the rate composer.                                        *)
(***************************************************************************)
RateCall == req.op = "calculate_interest_rate" /\ ret.status = "returned"
\* The try block returned: only its dict carries rate_components.
NormalPath(v) == "rate_components" \in DOMAIN v
\* The degraded dict of the except branch.
DegradedPath(v) == "rate_components" \notin DOMAIN v
\* The sum the try block clamps.
RawRate(v) == v.base_rate + v.volatility_premium + v.utilization_factor + v.risk_adjustment

\* The signal ranges of the fuzzing contract.
SignalsInRange ==
    LET pool == lookup_pool(pool_data, req.crypto_id)
    IN  /\ req.prediction.kind = "dict"
        /\ req.volatility.kind = "dict"
        /\ req.ml_volatility.kind = "dict"
        /\ Get(req.volatility.d, "annualized_volatility", 50) \in 0..200
        /\ Get(req.ml_volatility.d, "predicted_volatility", 3) \in 0..200
        /\ Get(req.prediction.d, "confidence_score", 50) \in 0..100
        /\ Get(req.volatility.d, "max_drawdown", 10) \in 0..100
        /\ pool.total_borrowed >= 0
        /\ pool.total_borrowed <= pool.total_supplied

\* C1: on the normal path, for signals in range (volatilities in [0,2],
\* confidence, utilization and drawdown in [0,1], any trend, regime and risk
\* level), min_rate <= effective_rate <= max_rate and current_rate is the
\* same number.
C1_NormalRateWithinBounds ==
    (RateCall /\ NormalPath(ret.value) /\ SignalsInRange) =>
        /\ cfg.min_rate <= ret.value.effective_rate
        /\ ret.value.effective_rate <= cfg.max_rate
        /\ ret.value.current_rate = ret.value.effective_rate

\* A normal return whose unclamped sum lies above max_rate.
C1_Witness ==
    /\ RateCall
    /\ NormalPath(ret.value)
    /\ SignalsInRange
    /\ RawRate(ret.value) > cfg.max_rate
    /\ ret.value.effective_rate = cfg.max_rate

\* An oracle call raised, or a response cannot be used by the arithmetic:
\* it is None, or its confidence_score is not a number.
OracleFailure ==
    \/ req.prediction.kind = "raise"
    \/ req.volatility.kind = "raise"
    \/ req.ml_volatility.kind = "raise"
PayloadFailure ==
    \/ req.prediction.kind = "none"
    \/ req.volatility.kind = "none"
    \/ req.ml_volatility.kind = "none"
    \/ "confidence_score" \in req.prediction.bad

\* C2: when an oracle call raises or a payload makes the arithmetic raise,
\* calculate_interest_rate still returns, and what it returns is the
\* degraded breakdown with effective_rate = current_rate = base_rate + 0.03.
C2_FailureYieldsFallback ==
    (req.op = "calculate_interest_rate" /\ (OracleFailure \/ PayloadFailure)) =>
        /\ ret.status = "returned"
        /\ DegradedPath(ret.value)
        /\ ret.value.effective_rate = cfg.base_rate + Pct(3)
        /\ ret.value.current_rate = cfg.base_rate + Pct(3)

\* The third oracle raised after two good answers, and the call returned
\* the degraded breakdown.
C2_Witness ==
    /\ req.op = "calculate_interest_rate"
    /\ req.prediction.kind = "dict"
    /\ req.volatility.kind = "dict"
    /\ req.ml_volatility.kind = "raise"
    /\ ret.status = "returned"
    /\ ret.value.effective_rate = cfg.base_rate + Pct(3)

\* C3: every breakdown calculate_interest_rate returns, normal or degraded,
\* under settings with min_rate <= base_rate <= max_rate, has
\* min_rate <= effective_rate <= max_rate and apy = compound(effective_rate).
C3_EveryBreakdownWithinBounds ==
    (RateCall /\ cfg.min_rate <= cfg.base_rate /\ cfg.base_rate <= cfg.max_rate) =>
        /\ cfg.min_rate <= ret.value.effective_rate
        /\ ret.value.effective_rate <= cfg.max_rate
        /\ ret.value.apy = calculate_apy(ret.value.effective_rate)

(***************************************************************************)
(* Properties of the public entry points and of the borrow pricer.         *)
(***************************************************************************)
\* C4: no entry point lets an exception escape to its caller, whatever the
\* oracles do, a failing price lookup or a price payload without
\* current_price included.
C4_NoExceptionEscapes == ret.status # "raised"

BorrowCall == req.op = "calculate_borrow_rate" /\ ret.status = "returned"

\* C5: final_rate = clamp(base_rate + rate_adjustment, min_rate, max_rate)
\* with base_rate the effective_rate of the nested calculate_interest_rate,
\* normal or degraded; hence min_rate <= final_rate <= max_rate.
C5_FinalRateIsClampedSum ==
    BorrowCall =>
        LET q == ret.value
            x == q.base_rate + q.rate_adjustment
        IN  /\ base_rate_info.status = "returned"
            /\ q.base_rate = base_rate_info.value.effective_rate
            /\ q.final_rate = IF x < cfg.min_rate THEN cfg.min_rate
                              ELSE IF x > cfg.max_rate THEN cfg.max_rate
                              ELSE x
            /\ cfg.min_rate <= q.final_rate
            /\ q.final_rate <= cfg.max_rate

\* A quote on a degraded base rate above max_rate, clamped down to max_rate.
C5_Witness ==
    /\ BorrowCall
    /\ DegradedPath(base_rate_info.value)
    /\ ret.value.base_rate > cfg.max_rate
    /\ ret.value.final_rate = cfg.max_rate

\* The tier table of the claim, on a ratio n/d with d > 0.
TierAdjustment(n, d) ==
    IF n >= 2 * d THEN -Mille(5)
    ELSE IF 2 * n >= 3 * d THEN 0
    ELSE IF 4 * n >= 5 * d THEN Pct(2)
    ELSE Pct(5)

\* Ratios the model's amounts and prices can form.
RatioGrid ==
    { Rat(n, d) : n \in 0..(MaxCollateral * MaxPrice), d \in 1..(MaxAmount * MaxPrice) }

\* C7: rate_adjustment is -0.005 for ratio >= 2.0, 0 for 1.5 <= ratio < 2.0,
\* +0.02 for 1.25 <= ratio < 1.5 and +0.05 below 1.25, and no larger ratio
\* gets a larger adjustment.
C7_TieredAdjustment ==
    BorrowCall =>
        LET q == ret.value
        IN  /\ q.collateral_ratio.d > 0
            /\ q.rate_adjustment = TierAdjustment(q.collateral_ratio.n, q.collateral_ratio.d)
            /\ \A r \in RatioGrid :
                  RatGe(r, q.collateral_ratio) =>
                      rate_adjustment_of(r) <= q.rate_adjustment

\* A quote at the boundary ratio 1.25, priced in the +0.02 tier.
C7_Witness ==
    /\ BorrowCall
    /\ ret.value.collateral_ratio.n * 4 = ret.value.collateral_ratio.d * 5
    /\ ret.value.collateral_ratio.n > 0
    /\ ret.value.rate_adjustment = Pct(2)

\* Both price lookups answered with a current_price.
PricesKnown ==
    /\ req.collateral_price_data.kind = "dict"
    /\ req.borrow_price_data.kind = "dict"
    /\ "current_price" \in DOMAIN req.collateral_price_data.d
    /\ "current_price" \in DOMAIN req.borrow_price_data.d

\* C10: with borrow_value = amount * borrow price = 0 the quote is returned
\* with collateral_ratio = 0, rate_adjustment = +0.05 and health_factor = 0.
C10_ZeroBorrowValue ==
    (req.op = "calculate_borrow_rate" /\ PricesKnown
        /\ req.amount * req.borrow_price_data.d["current_price"] = 0) =>
        /\ ret.status = "returned"
        /\ ret.value.collateral_ratio.d > 0
        /\ ret.value.collateral_ratio.n = 0
        /\ ret.value.rate_adjustment = Pct(5)
        /\ ret.value.health_factor.d > 0
        /\ ret.value.health_factor.n = 0

\* A positive collateral value against a borrow value of zero.
C10_Witness ==
    /\ BorrowCall
    /\ PricesKnown
    /\ req.amount > 0
    /\ req.borrow_price_data.d["current_price"] = 0
    /\ req.collateral_amount * req.collateral_price_data.d["current_price"] > 0
    /\ ret.value.collateral_ratio.n = 0

\* An invalid borrow input: a non-positive borrow value, or a negative
\* borrow or collateral amount.
InvalidBorrowInput ==
    \/ req.amount * req.borrow_price_data.d["current_price"] <= 0
    \/ req.amount < 0
    \/ req.collateral_amount < 0

\* C11: for every invalid borrow input (non-positive borrow value, negative
\* borrow or collateral amount) calculate_borrow_rate returns a quote with
\* the safe default collateral_ratio = 0, and neither raises nor reports a
\* negative ratio or a negative health factor.
C11_InvalidInputNormalized ==
    (req.op = "calculate_borrow_rate" /\ PricesKnown /\ InvalidBorrowInput) =>
        /\ ret.status = "returned"
        /\ ret.value.collateral_ratio.d > 0
        /\ ret.value.collateral_ratio.n = 0
        /\ ret.value.health_factor.d > 0
        /\ ret.value.health_factor.n >= 0

(***************************************************************************)
(* Properties of the utilization curve.                                    *)
(***************************************************************************)
\* A pool-stats call whose nested rate call took the normal path: its
\* breakdown reports the utilization factor of the pool looked up.
PoolCall ==
    /\ req.op = "get_pool_stats"
    /\ base_rate_info.status = "returned"
    /\ NormalPath(base_rate_info.value)
PoolOf(crypto_id) == lookup_pool(pool_data, crypto_id)
\* u = total_borrowed / total_supplied in units of 1/RS, for total_supplied > 0.
UtilizationOf(pool) == pool.total_borrowed * (RS \div pool.total_supplied)
\* The curve of the claim at utilization u.
KinkedCurve(u) ==
    IF u <= Pct(80) THEN (5 * u) \div 100 ELSE Pct(4) + (u - Pct(80)) \div 2

C12_PoolStats ==
    (req.op = "get_pool_stats" /\ ret.status = "returned") =>
        LET pool == PoolOf(req.crypto_id)
            reserve_factor == Get(pool, "reserve_factor", 10)
            composed == base_rate_info.value
            stats == ret.value
        IN  /\ IF pool.total_supplied = 0 THEN stats.utilization_rate = 0
               ELSE /\ RS % pool.total_supplied = 0
                    /\ stats.utilization_rate % (RS \div pool.total_supplied) = 0
                    /\ stats.utilization_rate \div (RS \div pool.total_supplied)
                           = pool.total_borrowed
            /\ stats.available_liquidity = pool.total_supplied - pool.total_borrowed
            /\ composed.apy = calculate_apy(composed.effective_rate)
            /\ stats.borrow_apy = composed.apy
            /\ stats.supply_apy = composed.apy * (100 - reserve_factor)
            /\ reserve_factor \in 0..100 =>
                   /\ 0 <= stats.supply_apy
                   /\ stats.supply_apy <= 100 * stats.borrow_apy

\* An over-lent pool with a reserve: negative liquidity, and a supply yield
\* strictly between zero and the borrow yield.
C12_Witness ==
    /\ req.op = "get_pool_stats"
    /\ ret.status = "returned"
    /\ PoolOf(req.crypto_id).total_supplied > 0
    /\ Get(PoolOf(req.crypto_id), "reserve_factor", 0) = 10
    /\ ret.value.available_liquidity < 0
    /\ ret.value.supply_apy > 0
    /\ ret.value.supply_apy < 100 * ret.value.borrow_apy

(***************************************************************************)
(* Properties of the position/health evaluator.                            *)
(***************************************************************************)
HealthCall == req.op = "calculate_health_factor" /\ ret.status = "returned"
\* The order of the bands, worst first.
StatusRank(status) ==
    CASE status = "danger" -> 0
      [] status = "at_risk" -> 1
      [] status = "moderate" -> 2
      [] status = "healthy" -> 3
      [] OTHER -> 4

\* C8: with debt > 0, health_factor = collateral * 0.85 / debt, classified
\* by strict thresholds (> 2 healthy, > 1.5 moderate, > 1.1 at_risk, else
\* danger), and a larger health factor never gets a worse status.
C8_HealthFactorBands ==
    (HealthCall /\ req.positions.total_borrowed_usd > 0) =>
        LET c == req.positions.total_supplied_usd
            d == req.positions.total_borrowed_usd
            h == ret.value
        IN  /\ h.health_factor.d > 0
            /\ h.health_factor.n * (100 * d) = (85 * c) * h.health_factor.d
            /\ h.status = IF 85 * c > 200 * d THEN "healthy"
                          ELSE IF 85 * c > 150 * d THEN "moderate"
                          ELSE IF 85 * c > 110 * d THEN "at_risk"
                          ELSE "danger"
            /\ \A other \in {q \in Positions : q.total_borrowed_usd > 0} :
                  LET o == calculate_health_factor("0xabc", other).value
                  IN  RatGe(o.health_factor, h.health_factor) =>
                          StatusRank(o.status) >= StatusRank(h.status)

\* A health factor of exactly 2, reported as moderate.
C8_Witness ==
    /\ HealthCall
    /\ req.positions.total_borrowed_usd > 0
    /\ 85 * req.positions.total_supplied_usd = 200 * req.positions.total_borrowed_usd
    /\ ret.value.status = "moderate"

\* C9: with debt = 0 the report is returned with status no_debt and the
\* finite sentinel 999 as health_factor, never infinity.
C9_NoDebtSentinel ==
    (req.op = "calculate_health_factor" /\ req.positions.total_borrowed_usd = 0) =>
        /\ ret.status = "returned"
        /\ ret.value.status = "no_debt"
        /\ ret.value.health_factor.d > 0
        /\ ret.value.health_factor.n = 999 * ret.value.health_factor.d

\* A wallet with collateral and no debt.
C9_Witness ==
    /\ HealthCall
    /\ req.positions.total_borrowed_usd = 0
    /\ req.positions.total_supplied_usd > 0
    /\ ret.value.status = "no_debt"

(***************************************************************************)
(* The worked example of the rate composer.                                *)
(***************************************************************************)
\* Whether payload r carries field k with value v.
Carries(r, k, v) == r.kind = "dict" /\ k \in DOMAIN r.d /\ k \notin r.bad /\ r.d[k] = v

\* The inputs of the example: settings 0.02 / 0.01 / 0.30, utilization 0.65,
\* payloads carrying historical volatility 0.5, predicted volatility 0.03,
\* confidence 0.5, regime medium, risk level medium, neutral trend, with
\* drawdown at most 0.10 and trend_strength at most 15.
ExampleInputs ==
    /\ req.op = "calculate_interest_rate"
    /\ cfg = DefaultSettings
    /\ PoolOf(req.crypto_id).total_supplied > 0
    /\ UtilizationOf(PoolOf(req.crypto_id)) = Pct(65)
    /\ Carries(req.volatility, "annualized_volatility", 50)
    /\ Carries(req.ml_volatility, "predicted_volatility", 3)
    /\ Carries(req.prediction, "confidence_score", 50)
    /\ Carries(req.volatility, "volatility_regime", "medium")
    /\ Carries(req.ml_volatility, "risk_level", "medium")
    /\ Carries(req.prediction, "trend", "neutral")
    /\ Get(req.volatility.d, "max_drawdown", 10) <= 10
    /\ Get(req.ml_volatility.d, "trend_strength", 0) <= 15

\* C13: on the inputs of the example calculate_interest_rate returns
\* utilization_factor 0.0325, volatility_premium 0.0584, risk_adjustment 0
\* and effective_rate 0.1109.
C13_WorkedExample ==
    ExampleInputs =>
        /\ ret.status = "returned"
        /\ NormalPath(ret.value)
        /\ ret.value.utilization_factor = Bp(325)
        /\ ret.value.volatility_premium = Bp(584)
        /\ ret.value.risk_adjustment = 0
        /\ ret.value.effective_rate = Bp(1109)

\* The example with drawdown and trend_strength exactly at their thresholds.
C13_Witness ==
    /\ ExampleInputs
    /\ Carries(req.volatility, "max_drawdown", 10)
    /\ Carries(req.ml_volatility, "trend_strength", 15)
    /\ ret.status = "returned"
    /\ ret.value.effective_rate = Bp(1109)

(***************************************************************************)
(* The worked example of the position/health evaluator.                    *)
(***************************************************************************)
\* A wallet with total collateral 8500 USD and total debt 5000 USD.
ExamplePosition ==
    /\ HealthCall
    /\ req.positions.total_supplied_usd * UsdUnit = 8500
    /\ req.positions.total_borrowed_usd * UsdUnit = 5000

\* C14, as stated: collateral 8500 USD and debt 5000 USD are evaluated to
\* health_factor 1.445 and status moderate.
C14_ExampleModerate ==
    ExamplePosition =>
        /\ ret.value.health_factor.d > 0
        /\ ret.value.health_factor.n * 1000 = 1445 * ret.value.health_factor.d
        /\ ret.value.status = "moderate"

\* C14, amended: collateral 8500 USD and debt 5000 USD are evaluated to
\* health_factor 1.445 and, 1.445 not exceeding 1.5, status at_risk.
C14_ExampleAtRisk ==
    ExamplePosition =>
        /\ ret.value.health_factor.d > 0
        /\ ret.value.health_factor.n * 1000 = 1445 * ret.value.health_factor.d
        /\ ret.value.status = "at_risk"

\* The example position, evaluated.
C14_Witness ==
    /\ ExamplePosition
    /\ ret.value.total_collateral_usd * UsdUnit = 8500
    /\ ret.value.total_debt_usd * UsdUnit = 5000
    /\ ret.value.status = "at_risk"

(***************************************************************************)
(* Properties of the yield conversion.                                     *)
(***************************************************************************)
ApyCall == req.op = "calculate_apy" /\ ret.status = "returned"

\* C15, as stated: the conversion returns exactly 0 for r = 0 and a value
\* strictly greater than r for every rate r > 0.
C15_ApyAboveEveryRate ==
    ApyCall =>
        /\ req.rate = 0 => ret.value.apy = 0
        /\ req.rate > 0 => ret.value.apy > req.rate

\* C15, amended: the conversion returns exactly 0 for r = 0 and a value
\* strictly greater than r for every r in [0.01, 0.30], the default
\* [min_rate, max_rate].
C15_ApyAboveBoundedRate ==
    ApyCall =>
        /\ req.rate = 0 => ret.value.apy = 0
        /\ (req.scale = "fixed" /\ MIN_INTEREST_RATE <= req.rate
               /\ req.rate <= MAX_INTEREST_RATE) =>
               ret.value.apy > req.rate

\* The conversion at the default min_rate, compounding to more than 0.01.
C15_Witness ==
    /\ ApyCall
    /\ req.scale = "fixed"
    /\ req.rate = MIN_INTEREST_RATE
    /\ ret.value.apy > req.rate

(***************************************************************************)
(* Properties of the defaults for omitted fields.                          *)
(***************************************************************************)
\* The documented defaults.
PredictionDefaults == [confidence_score |-> 50, trend |-> "neutral"]
VolatilityDefaults == [annualized_volatility |-> 50, volatility_regime |-> "medium"]
MlVolatilityDefaults == [predicted_volatility |-> 3, risk_level |-> "medium"]

\* Payload r with the defaults written in for the fields it omits.
WithDefaults(r, defaults) ==
    [r EXCEPT !.d = [k \in DOMAIN r.d \cup DOMAIN defaults |->
                        IF k \in DOMAIN r.d THEN r.d[k] ELSE defaults[k]]]

\* Every oracle answered with a dict of well-typed fields.
PayloadsAreDicts ==
    /\ req.prediction.kind = "dict" /\ req.prediction.bad = {}
    /\ req.volatility.kind = "dict" /\ req.volatility.bad = {}
    /\ req.ml_volatility.kind = "dict" /\ req.ml_volatility.bad = {}

\* C16: when a payload omits fields, or has no fields at all, nothing raises
\* and the volatility premium and the risk adjustment are those of the same
\* payloads with the documented defaults written in explicitly.
C16_OmittedFieldsAreDefaults ==
    (req.op = "calculate_interest_rate" /\ PayloadsAreDicts) =>
        LET prediction == WithDefaults(req.prediction, PredictionDefaults)
            volatility == WithDefaults(req.volatility, VolatilityDefaults)
            ml_volatility == WithDefaults(req.ml_volatility, MlVolatilityDefaults)
        IN  /\ ret.status = "returned"
            /\ NormalPath(ret.value)
            /\ ret.value.volatility_premium =
                   calculate_volatility_premium(volatility, prediction, ml_volatility)
            /\ ret.value.risk_adjustment =
                   calculate_risk_adjustment(prediction, volatility, ml_volatility)

(***************************************************************************)
(* Properties of next_update.                                              *)
(***************************************************************************)
\* C19: in every breakdown calculate_interest_rate returns, degraded ones
\* included, next_update is the start of the next hour: strictly later than
\* now, at most one hour later, with nothing below the hour set.
C19_NextUpdateOnTheHour ==
    RateCall =>
        /\ ret.value.next_update > req.now
        /\ ret.value.next_update <= req.now + TicksPerHour
        /\ ret.value.next_update % TicksPerHour = 0

(***************************************************************************)
(* Properties of the degraded breakdown.                                   *)
(***************************************************************************)
\* The fields of a normally computed breakdown.
NormalFields ==
    DOMAIN rate_breakdown(DefaultSettings, [ethereum |-> SeedPool], "ethereum",
                          Dict(ExamplePrediction), Dict(ExampleVolatility),
                          Dict(ExampleMlVolatility), TicksPerDay)

\* C17: a degraded breakdown carries an explicit flag or marker, a field no
\* normally computed breakdown carries, by which a caller can tell it from a
\* normal one.
C17_DegradedCarriesMarker ==
    (RateCall /\ try_raises(req.prediction, req.volatility, req.ml_volatility)) =>
        \E field \in DOMAIN ret.value : field \notin NormalFields

(***************************************************************************)
(* Properties of the awaits.                                               *)
(***************************************************************************)
\* C18: calculate_interest_rate eventually returns even when an oracle call
\* never responds: the await is bounded by a timeout, after which the
\* degraded result is returned.
C18_EventuallyReturns == (req # Idle) ~> (ret.status = "returned")

(***************************************************************************)
(* Properties of the rate history.                                         *)
(***************************************************************************)
HistoryCall == req.op = "get_rate_history" /\ ret.status = "returned"

\* C20: get_rate_history(asset, days) returns exactly max(days, 0) entries
\* in strictly increasing date order, the last one dated yesterday; every
\* rate lies in [min_rate, max_rate], every apy is compound(rate), and each
\* step of the walk starts from the previous entry's clamped rate, the first
\* from base_rate.
C20_RateHistoryWalk ==
    HistoryCall =>
        LET history == ret.value
            n == Len(history)
        IN  /\ n = IF req.days > 0 THEN req.days ELSE 0
            /\ \A k \in 1..(n - 1) : history[k].date < history[k + 1].date
            /\ n > 0 => history[n].date = req.nows[n] \div TicksPerDay - 1
            /\ \A k \in 1..n :
                  LET start == IF k = 1 THEN cfg.base_rate ELSE history[k - 1].rate
                      x == start + req.variations[k]
                  IN  /\ cfg.min_rate <= history[k].rate
                      /\ history[k].rate <= cfg.max_rate
                      /\ history[k].apy = calculate_apy(history[k].rate)
                      /\ history[k].rate = IF x < cfg.min_rate THEN cfg.min_rate
                                           ELSE IF x > cfg.max_rate THEN cfg.max_rate
                                           ELSE x

\* A walk clamped at max_rate on its first step that comes down from there
\* on its second, across a midnight.
C20_Witness ==
    /\ HistoryCall
    /\ Len(ret.value) >= 2
    /\ cfg.base_rate + req.variations[1] > cfg.max_rate
    /\ ret.value[1].rate = cfg.max_rate
    /\ ret.value[2].rate = cfg.max_rate - Pct(3)
    /\ req.nows[1] \div TicksPerDay < req.nows[2] \div TicksPerDay

(***************************************************************************)
(* Properties of the volatility premium.                                   *)
(***************************************************************************)
\* The payloads carry historical and predicted volatility 0.
ZeroVolatility ==
    /\ Carries(req.volatility, "annualized_volatility", 0)
    /\ Carries(req.ml_volatility, "predicted_volatility", 0)

\* C21: for zero volatility (historical and predicted volatility both 0) the
\* volatility premium of the breakdown is 0, whatever the confidence, the
\* regime and the risk level.
C21_ZeroVolatilityZeroPremium ==
    (RateCall /\ NormalPath(ret.value) /\ PayloadsAreDicts /\ ZeroVolatility) =>
        ret.value.volatility_premium = 0

(***************************************************************************)
(* Properties of the risk adjustment.                                      *)
(***************************************************************************)
\* The trend term: a bearish premium above confidence 0.6, a bullish
\* discount above confidence 0.7 for a change above 5, nothing otherwise.
TrendTerm(trend, change, confidence) ==
    IF trend = "bearish" /\ confidence > 60
    THEN Min(Abs(change) * Min(confidence, 95) * 4 * (RS \div 100000), Pct(8))
    ELSE IF trend = "bullish" /\ confidence > 70 /\ change > 5
         THEN -Min(change * confidence * (RS \div 100000), Pct(2))
         ELSE 0

\* The drawdown term.
DrawdownTerm(max_drawdown) ==
    CASE max_drawdown > 25 -> Pct(3)
      [] max_drawdown > 15 /\ max_drawdown <= 25 -> Pct(2)
      [] max_drawdown > 10 /\ max_drawdown <= 15 -> Pct(1)
      [] OTHER -> 0

\* The trend-strength term.
StrengthTerm(trend_strength) == IF trend_strength > 15 THEN Mille(15) ELSE 0

\* C22: the risk adjustment of a breakdown is the sum of a trend term
\* (bearish premium, bullish discount or 0, never both), a drawdown term
\* (+0.03, +0.02, +0.01 or 0) and a trend-strength term (+0.015 above 15),
\* and lies between -0.02 and 0.125.
C22_RiskAdjustmentTerms ==
    (RateCall /\ NormalPath(ret.value) /\ PayloadsAreDicts) =>
        LET trend == Get(req.prediction.d, "trend", "neutral")
            change == Get(req.prediction.d, "predicted_change_percent", 0)
            confidence == Get(req.prediction.d, "confidence_score", 50)
            max_drawdown == Get(req.volatility.d, "max_drawdown", 10)
            trend_strength == Get(req.ml_volatility.d, "trend_strength", 0)
        IN  /\ ret.value.risk_adjustment =
                   TrendTerm(trend, change, confidence)
                       + DrawdownTerm(max_drawdown) + StrengthTerm(trend_strength)
            /\ ret.value.risk_adjustment >= -Pct(2)
            /\ ret.value.risk_adjustment <= Mille(125)

\* A bearish premium below its cap, together with the middle drawdown term.
C22_Witness ==
    /\ RateCall /\ NormalPath(ret.value) /\ PayloadsAreDicts
    /\ Carries(req.prediction, "trend", "bearish")
    /\ Carries(req.prediction, "predicted_change_percent", -10)
    /\ Carries(req.prediction, "confidence_score", 100)
    /\ Carries(req.volatility, "max_drawdown", 20)
    /\ Carries(req.ml_volatility, "trend_strength", 16)
    /\ ret.value.risk_adjustment = Bp(380) + Pct(2) + Mille(15)

(***************************************************************************)
(* Monotonicity of the volatility premium.                                 *)
(***************************************************************************)
\* Payload r with field k set to v, every other field as it is.
WithField(r, k, v) ==
    [r EXCEPT !.d = [f \in DOMAIN r.d \cup {k} |-> IF f = k THEN v ELSE r.d[f]]]

\* The premium and the clamped rate of the call in progress, had the oracles
\* answered with the given volatility payloads instead: base rate and
\* utilization factor as returned, premium and risk adjustment recomputed.
PremiumWith(volatility, ml_volatility) ==
    calculate_volatility_premium(volatility, req.prediction, ml_volatility)
RateWith(volatility, ml_volatility) ==
    Clamp(cfg, ret.value.base_rate + PremiumWith(volatility, ml_volatility)
                   + ret.value.utilization_factor
                   + calculate_risk_adjustment(req.prediction, volatility, ml_volatility))

\* C23: with confidence in [0,1] and the regime and the risk level fixed,
\* the volatility premium is non-negative, and raising the historical or the
\* predicted volatility lowers neither the premium nor the clamped effective
\* rate.
C23_PremiumMonotone ==
    (RateCall /\ NormalPath(ret.value) /\ PayloadsAreDicts /\ SignalsInRange) =>
        LET annualized_vol == Get(req.volatility.d, "annualized_volatility", 50)
            predicted_vol == Get(req.ml_volatility.d, "predicted_volatility", 3)
        IN  /\ ret.value.volatility_premium >= 0
            /\ PremiumWith(req.volatility, req.ml_volatility) = ret.value.volatility_premium
            /\ RateWith(req.volatility, req.ml_volatility) = ret.value.effective_rate
            /\ \A av \in Vols : av >= annualized_vol =>
                   LET raised == WithField(req.volatility, "annualized_volatility", av)
                   IN  /\ PremiumWith(raised, req.ml_volatility)
                               >= ret.value.volatility_premium
                       /\ RateWith(raised, req.ml_volatility) >= ret.value.effective_rate
            /\ \A pv \in Vols : (Truthy(req.ml_volatility) /\ pv >= predicted_vol) =>
                   LET raised == WithField(req.ml_volatility, "predicted_volatility", pv)
                   IN  /\ PremiumWith(req.volatility, raised)
                               >= ret.value.volatility_premium
                       /\ RateWith(req.volatility, raised) >= ret.value.effective_rate

\* A call at confidence 1 whose premium and effective rate rise strictly when
\* the predicted volatility is raised from 0 to the top of the grid.
C23_Witness ==
    /\ RateCall /\ NormalPath(ret.value) /\ PayloadsAreDicts
    /\ Carries(req.prediction, "confidence_score", 100)
    /\ Carries(req.ml_volatility, "predicted_volatility", 0)
    /\ Carries(req.volatility, "annualized_volatility", 0)
    /\ ret.value.volatility_premium = 0
    /\ LET raised == WithField(req.ml_volatility, "predicted_volatility", 200)
       IN  /\ PremiumWith(req.volatility, raised) > 0
           /\ RateWith(req.volatility, raised) > ret.value.effective_rate

(***************************************************************************)
(* The risk adjustment under the fallback predictor.                       *)
(***************************************************************************)
\* The prediction of the call in progress came from _fallback_prediction.
FromFallbackPredictor ==
    /\ Carries(req.prediction, "model_version", "fallback_v1")
    /\ req.prediction.d \in FallbackPredictions

\* C29: when the prediction comes from the fallback predictor (confidence
\* 0.55, trend bullish or bearish), neither the bearish premium nor the
\* bullish discount is applied: the risk adjustment is the drawdown add-on
\* plus the trend-strength add-on, and is never negative.
C29_FallbackHasNoTrendTerm ==
    (RateCall /\ NormalPath(ret.value) /\ PayloadsAreDicts /\ FromFallbackPredictor) =>
        /\ req.prediction.d.confidence_score = 55
        /\ req.prediction.d.trend \in {"bullish", "bearish"}
        /\ ret.value.risk_adjustment =
               DrawdownTerm(Get(req.volatility.d, "max_drawdown", 10))
                   + StrengthTerm(Get(req.ml_volatility.d, "trend_strength", 0))
        /\ ret.value.risk_adjustment >= 0

\* A bearish fallback prediction of a large fall, with both add-ons applied.
C29_Witness ==
    /\ RateCall /\ NormalPath(ret.value) /\ PayloadsAreDicts /\ FromFallbackPredictor
    /\ req.prediction.d.trend = "bearish"
    /\ req.prediction.d.predicted_change_percent = -MaxChange
    /\ ret.value.risk_adjustment = Pct(3) + Mille(15)

(***************************************************************************)
(* Properties of the no-debt sentinel.                                     *)
(***************************************************************************)
\* C28: the health_factor calculate_health_factor reports equals the no-debt
\* sentinel 999 only when the status is no_debt and the total debt is 0; no
\* position with positive debt is reported with health_factor 999.
C28_SentinelOnlyWithoutDebt ==
    (HealthCall /\ RatEq(ret.value.health_factor, Rat(999, 1))) =>
        /\ ret.value.status = "no_debt"
        /\ ret.value.total_debt_usd = 0

(***************************************************************************)
(* Properties of the /pool/borrow route.                                   *)
(***************************************************************************)
\* The route answered with a prepared borrow transaction.
PreparedBorrow ==
    /\ req.op = "borrow_from_pool"
    /\ req.pc = "done"
    /\ ret.status = "returned"
    /\ ret.value.status = "prepared"
    /\ ret.value.transaction_data.function = "borrow"

\* C24: a prepared borrow transaction is returned only for a loan whose
\* per-loan health_factor is at least 1; a request below the liquidation
\* threshold, one with zero collateral included, is never returned as a
\* prepared borrow.  Stated for requests with a positive amount and a
\* non-negative collateral.
C24_PreparedOnlyWhenHealthy ==
    (PreparedBorrow /\ req.amount > 0 /\ req.collateral_amount >= 0) =>
        RatGe(ret.value.transaction_data.health_factor, Rat(1, 1))

\* C25: in every response of the route, transaction_data.interest_rate is
\* interest_rate.final_rate and transaction_data.health_factor is
\* interest_rate.health_factor, whatever the oracles answer between the two
\* evaluations of calculate_borrow_rate.
C25_ResponseIsConsistent ==
    PreparedBorrow =>
        /\ ret.value.transaction_data.interest_rate = ret.value.interest_rate.final_rate
        /\ RatEq(ret.value.transaction_data.health_factor,
                 ret.value.interest_rate.health_factor)

(***************************************************************************)
(* Properties of the volatility regime.                                    *)
(***************************************************************************)
\* The regime of an annualized volatility, in hundredths: low below 0.3,
\* medium from 0.3 to below 0.6, high from 0.6 to below 1.0, extreme from
\* 1.0 up.
RegimeOf(annualized_volatility) ==
    CASE annualized_volatility < 30 -> "low"
      [] annualized_volatility >= 30 /\ annualized_volatility < 60 -> "medium"
      [] annualized_volatility >= 60 /\ annualized_volatility < 100 -> "high"
      [] annualized_volatility >= 100 -> "extreme"

\* C30: every result of calculate_volatility has the volatility_regime of
\* its annualized_volatility, the mock result returned for a history shorter
\* than the window included.
C30_RegimeMatchesVolatility ==
    (req.op = "calculate_volatility" /\ ret.status = "returned") =>
        ret.value.volatility_regime = RegimeOf(ret.value.annualized_volatility)

(***************************************************************************)
(* Properties of the market-data cache.                                    *)
(***************************************************************************)
\* get_market_data has returned.
MarketCall == req.op = "get_market_data" /\ req.pc = "done" /\ ret.status = "returned"

\* C27: get_market_data returns a cached entry only while its age, at the
\* cache check, is strictly less than 5 minutes; every entry of the cache is
\* the result of a successful live fetch, stored no later than now; and
\* after a mock result the asset has no fresh entry, so the next call fetches
\* again.
C27_CacheServesFreshLiveData ==
    /\ \A k \in DOMAIN cache :
          /\ cache[k].data.source = "yfinance"
          /\ cache[k].data.asset = k
          /\ cache[k].cached_time <= clock
    /\ (MarketCall /\ req.from = "cache") =>
          /\ req.asset_id \in DOMAIN cache
          /\ ret.value = cache[req.asset_id].data
          /\ req.now - cache[req.asset_id].cached_time < CacheMinutes
          /\ req.now - cache[req.asset_id].cached_time >= 0
    /\ (MarketCall /\ req.from \in {"empty", "raise"}) =>
          /\ ret.value.source = "mock"
          /\ ~cache_hit(cache, req.asset_id, clock, CacheMinutes)
    /\ (MarketCall /\ req.from = "live") =>
          /\ ret.value.source = "yfinance"
          /\ cache[req.asset_id].data = ret.value

\* An entry served at the last minute of its life, next to an entry of the
\* other asset that has expired.
C27_Witness ==
    /\ MarketCall
    /\ req.from = "cache"
    /\ req.now - cache[req.asset_id].cached_time = CacheMinutes - 1
    /\ \E k \in DOMAIN cache :
          /\ k # req.asset_id
          /\ req.now - cache[k].cached_time >= CacheMinutes

(***************************************************************************)
(* Properties of the prediction cache under retraining.                    *)
(***************************************************************************)
\* get_prediction answered from its cache.
CachedPrediction ==
    /\ req.op = "get_prediction"
    /\ req.pc = "done"
    /\ ret.status = "returned"
    /\ req.from = "cache"

\* C26: once train_model has completed for an asset, get_prediction returns
\* no prediction cached before that training finished, for that asset and
\* for every asset id that maps to the same model_id: a prediction served
\* from the cache was computed from the current model file of its model_id.
C26_NoStalePredictionAfterTraining ==
    CachedPrediction =>
        ret.value.model_generation =
            model_files[get_crypto_info(req.crypto_id).model_id]

====
